---- MODULE Spec2Model ----
(***************************************************************************)
(* Package activation and rollout of the geneos tool (atropo/cordial).     *)
(*                                                                         *)
(*   - latest(): the version resolver (options.go)                         *)
(*   - Update(): activation of a base link (geneos.go)                     *)
(*   - Stop(): the stop escalation (instance package)                      *)
(*   - updateCmd.RunE: the `package update` rollout (pkgcmd/update.go)     *)
(*                                                                         *)
(* File and directory names are sequences of one-character strings, so     *)
(* that prefix stripping, regexp filtering and version parsing are         *)
(* computed on the characters as the code computes them.                   *)
(***************************************************************************)
EXTENDS Integers, Sequences, FiniteSets, TLC

\* ------------------------------------------------------------------------
\* Bounds of the model
\* ------------------------------------------------------------------------

\* largest number of dot separated segments of a generated version name
MaxSegs == 3

\* largest number of candidate names in a directory listing given to latest()
MaxCands == 2

\* ------------------------------------------------------------------------
\* Characters and strings
\* ------------------------------------------------------------------------

NoName == <<>>

Digits == <<"0", "1", "2", "3", "4", "5", "6", "7", "8", "9">>

\* the characters used by the model, in byte order (ReadDir sorts by filename)
ByteOrder ==
    <<".", "0", "1", "2", "3", "4", "5", "6", "7", "8", "9",
      "A", "G", "_", "a", "c", "d", "e", "i", "n", "o", "p", "r", "s", "t", "v">>

Ord(c) == CHOOSE i \in 1..Len(ByteOrder) : ByteOrder[i] = c

IsDigit(c) == \E i \in 1..Len(Digits) : Digits[i] = c

DigitVal(c) == (CHOOSE i \in 1..Len(Digits) : Digits[i] = c) - 1

\* unicode.IsLetter, for the characters of ByteOrder
IsLetter(c) == c \notin {".", "_"} /\ ~IsDigit(c)

RECURSIVE Render(_)
Render(n) ==
    IF n < 10 THEN <<Digits[n + 1]>>
    ELSE Render(n \div 10) \o <<Digits[(n % 10) + 1]>>

\* byte-wise string order, the order of the entries ReadDir returns
RECURSIVE NameLess(_, _)
NameLess(a, b) ==
    IF a = <<>> THEN b # <<>>
    ELSE IF b = <<>> THEN FALSE
    ELSE IF Head(a) = Head(b) THEN NameLess(Tail(a), Tail(b))
    ELSE Ord(Head(a)) < Ord(Head(b))

RECURSIVE SortedNames(_)
SortedNames(S) ==
    IF S = {} THEN <<>>
    ELSE LET m == CHOOSE x \in S : \A y \in S \ {x} : NameLess(x, y)
         IN  <<m>> \o SortedNames(S \ {m})

HasPrefix(s, p) == Len(p) <= Len(s) /\ SubSeq(s, 1, Len(p)) = p

\* strings.TrimPrefix
TrimPrefix(s, p) == IF HasPrefix(s, p) THEN SubSeq(s, Len(p) + 1, Len(s)) ELSE s

RECURSIVE TakeLetters(_)
TakeLetters(s) ==
    IF s = <<>> \/ ~IsLetter(Head(s)) THEN <<>>
    ELSE <<Head(s)>> \o TakeLetters(Tail(s))

RECURSIVE DropNonLetters(_)
DropNonLetters(s) ==
    IF s = <<>> \/ IsLetter(Head(s)) THEN s ELSE DropNonLetters(Tail(s))

\* v1p[0] of strings.FieldsFunc(n, !unicode.IsLetter): the first run of
\* letters anywhere in n, <<>> when n holds no letter (len(v1p) = 0)
FirstLetterField(n) == TakeLetters(DropNonLetters(n))

\* the name latest() hands to version.NewVersion
StripName(n) ==
    LET f == FirstLetterField(n)
    IN  IF f # <<>> THEN TrimPrefix(n, f) ELSE n

\* regexp MatchString for a filter made of digits and dots: unanchored, a
\* dot matches any character; the empty filter matches every name
MatchString(filter, name) ==
    \E off \in 0..(Len(name) - Len(filter)) :
        \A i \in 1..Len(filter) :
            filter[i] = "." \/ filter[i] = name[off + i]

\* ------------------------------------------------------------------------
\* hashicorp/go-version, for names of digits and dots; every other
\* character of ByteOrder that can be left after StripName makes NewVersion
\* fail
\* ------------------------------------------------------------------------

RECURSIVE SplitDots(_, _, _)
SplitDots(s, cur, acc) ==
    IF s = <<>> THEN Append(acc, cur)
    ELSE IF Head(s) = "." THEN SplitDots(Tail(s), <<>>, Append(acc, cur))
    ELSE SplitDots(Tail(s), Append(cur, Head(s)), acc)

RECURSIVE NumVal(_, _)
NumVal(ds, acc) ==
    IF ds = <<>> THEN acc ELSE NumVal(Tail(ds), acc * 10 + DigitVal(Head(ds)))

\* version.NewVersion(s) returns no error
ValidVersion(s) ==
    /\ s # <<>>
    /\ \A i \in 1..Len(s) : IsDigit(s[i]) \/ s[i] = "."
    /\ LET parts == SplitDots(s, <<>>, <<>>)
       IN  \A i \in 1..Len(parts) : parts[i] # <<>>

\* the segments of a valid version, padded with zeros to three
Segments(s) ==
    LET parts == SplitDots(s, <<>>, <<>>)
        n     == IF Len(parts) < 3 THEN 3 ELSE Len(parts)
    IN  [i \in 1..n |-> IF i <= Len(parts) THEN NumVal(parts[i], 0) ELSE 0]

SegAt(v, i) == IF i <= Len(v) THEN v[i] ELSE 0

\* Version.LessThan
VersionLess(a, b) ==
    LET n == IF Len(a) < Len(b) THEN Len(b) ELSE Len(a)
    IN  \E i \in 1..n :
            /\ SegAt(a, i) < SegAt(b, i)
            /\ \A j \in 1..(i - 1) : SegAt(a, j) = SegAt(b, j)

\* ------------------------------------------------------------------------
\* latest()
\* ------------------------------------------------------------------------

\* the originals map: each kept entry, in ReadDir order, records itself
\* under its own name and under its stripped name
RECURSIVE BuildOriginals(_, _)
BuildOriginals(entries, m) ==
    IF entries = <<>> THEN m
    ELSE LET n == Head(entries)
             p == StripName(n)
         IN  BuildOriginals(Tail(entries), (p :> n) @@ (n :> n) @@ m)

\* latest mutated: returns the normalised version, not the directory name
latestNormalised(dirs, filter, skip) ==
    LET kept  == {d \in dirs : MatchString(filter, d) /\ d \notin skip}
        valid == {StripName(d) : d \in {e \in kept : ValidVersion(StripName(e))}}
        last  == {v \in valid :
                    \A w \in valid : ~VersionLess(Segments(v), Segments(w))}
    IN  IF valid = {} THEN {NoName} ELSE last

\* latest mutated: the filter must equal the stripped name
latestExact(dirs, filter, skip) ==
    LET kept  == {d \in dirs :
                    (filter = <<>> \/ StripName(d) = filter) /\ d \notin skip}
        valid == {StripName(d) : d \in {e \in kept : ValidVersion(StripName(e))}}
        last  == {v \in valid :
                    \A w \in valid : ~VersionLess(Segments(v), Segments(w))}
        originals == BuildOriginals(SortedNames(kept), <<>>)
    IN  IF valid = {} THEN {NoName} ELSE {originals[v] : v \in last}

\* The values latest(r, dir, filter, fn) can return for a directory holding
\* the entries dirs, fn returning true for the entries in skip.  sort.Sort is
\* not stable, so any of the versions that compare equal to the greatest can
\* end up last in the sorted slice.
latest(dirs, filter, skip) ==
    LET kept  == {d \in dirs : MatchString(filter, d) /\ d \notin skip}
        valid == {StripName(d) : d \in {e \in kept : ValidVersion(StripName(e))}}
        last  == {v \in valid :
                    \A w \in valid : ~VersionLess(Segments(v), Segments(w))}
        originals == BuildOriginals(SortedNames(kept), <<>>)
    IN  IF valid = {} THEN {NoName} ELSE {originals[v] : v \in last}

\* ------------------------------------------------------------------------
\* Inputs of the version resolver
\* ------------------------------------------------------------------------

SegVals == {9, 10}

Prefixes == {<<>>, <<"G", "A">>}

RECURSIVE Bodies(_)
Bodies(k) ==
    IF k = 1 THEN {Render(v) : v \in SegVals}
    ELSE {b \o <<".">> \o Render(v) : b \in Bodies(k - 1), v \in SegVals}

JunkNames ==
    { <<"n", "o", "t", "a", "v", "e", "r", "s", "i", "o", "n">>,
      <<"a", "c", "t", "i", "v", "e", "_", "p", "r", "o", "d">>,
      <<"9", ".">> }

\* names with a trailing zero segment: versions equal to a shorter name
ZeroNames ==
    { <<"1", "0", ".", "0">>, <<"9", ".", "1", "0", ".", "0">> }

Names ==
    {p \o b : p \in Prefixes, b \in UNION {Bodies(k) : k \in 1..MaxSegs}}
        \cup ZeroNames \cup JunkNames

\* requested versions: "" (latest), full names and leading parts of names
Filters ==
    { <<>>, <<"9">>, <<"9", ".", "1">>, <<"1", "0">>, <<"9", ".", "1", "0">> }

RECURSIVE SubsetsUpTo(_, _)
SubsetsUpTo(S, k) ==
    IF k = 0 THEN {{}}
    ELSE LET prev == SubsetsUpTo(S, k - 1)
         IN  prev \cup {p \cup {x} : p \in prev, x \in S}

\* ------------------------------------------------------------------------
\* The host: components, base names, instances, installed versions
\* ------------------------------------------------------------------------

\* most calls of one command line in a row
MaxCalls == 2

\* StopRetries mutated: the loop runs once more
StopRetriesOffByOne == 10 + 1

\* the graceful signals Stop repeats after the first
StopRetries == 10

Components == {"gateway", "netprobe"}

Basenames == {"active_prod", "active_dev"}

Instances == {"i1", "i2"}

\* the order in which the instances of a host are listed
InstanceOrder == <<"i1", "i2">>

\* version directories that can be installed under packages/<component>
VA == <<"9", ".", "9">>
VB == <<"9", ".", "1", "0">>
VGB == <<"G", "A", "9", ".", "1", "0">>

\* the name of a base link as a directory entry
BaseEntry(b) ==
    IF b = "active_prod"
    THEN <<"a", "c", "t", "i", "v", "e", "_", "p", "r", "o", "d">>
    ELSE <<"a", "c", "t", "i", "v", "e", "_", "d", "e", "v">>

Latest == <<"l", "a", "t", "e", "s", "t">>

\* a version that is a leading part of VB only, and one that is not installed
VPartial == <<"9", ".", "1">>
VMissing == <<"1", "0", ".", "9">>

\* errors
Nil == [kind |-> "nil", name |-> NoName]
ErrNotExist(n) == [kind |-> "NotExist", name |-> n]
ErrIO == [kind |-> "IO", name |-> NoName]
ErrProcessDone == [kind |-> "ProcessDone", name |-> NoName]
ErrPerm == [kind |-> "EPERM", name |-> NoName]

NoRun == [kind |-> "none", name |-> NoName]

IsNotExist(e) == e.kind = "NotExist"

NoInstance == "-"

Event(e, i, a) == [ev |-> e, inst |-> i, arg |-> a]

VARIABLES
    rdirs,      \* resolver: the names in the directory listing
    rfilter,    \* resolver: the filter (requested version, "" for latest)
    rout,       \* resolver: the returned name
    rpc,        \* resolver: "call" before, "done" after the call
    versions,   \* the version directories under packages/<component>
    link,       \* base name -> target of the base link, NoName when absent
    conf,       \* instance -> its configuration (type, base, protected)
    running,    \* instance -> its process exists
    pending,    \* instance -> the signal its process has received
    cmd,        \* the command line being run
    pc,         \* the statement the command is at
    calls,      \* how many times the command line has been run
    todo,       \* RunE: the instances still to stop
    cur,        \* Stop: the instance being stopped
    tries,      \* Stop: the loop counter i
    deferred,   \* RunE: the deferred Start calls, last registered first
    uver,       \* Update: opts.version
    existing,   \* Update: the target read from the base link
    uerr,       \* Update: its return value
    result,     \* the return value of the command
    warned,     \* RunE printed the protected instances warning
    faulted,    \* a filesystem call of this run failed for an outside reason
    log,        \* the signals, link changes and starts of this run, in order
    link0,      \* link when the run began
    run0,       \* running when the run began
    prev,       \* the return value of the run before this one
    tfs,        \* fan-out: target (host, component) -> its versions and links
    stack,      \* fan-out: the loops of the calls of Update in progress
    fcall,      \* fan-out: the host and component Update is called with
    active,     \* fan-out: the target whose directory versions, link stand for
    flog,       \* fan-out: the calls that returned to a loop, in order
    lid,        \* fan-out: the loops begun so far
    arc,        \* Unarchive: the file name, the override and the tar entries
    apos,       \* Unarchive: the entries read from the archive so far
    xct,        \* Unarchive: ct after the file name or override was looked at
    xver,       \* Unarchive: version
    tree,       \* the files, directories and links in the version directories
    escaped,    \* what was created outside every version directory
    made,       \* Unarchive: this call made the version directory
    net,        \* OpenArchive: the options of the download
    reqs,       \* checkArchive: the requests sent and their answers, in order
    hsrc,       \* checkArchive: source has the platform suffix
    hauth,      \* checkArchive: auth_body has been filled in
    cache,      \* packages/downloads: the file of that name, if any
    obody,      \* OpenArchive: the stream it returns
    removed,    \* the instances whose home directory has been removed
    procs       \* two calls at once: each call's position and local variables

rvars == <<rdirs, rfilter, rout, rpc>>
fsvars == <<versions, link>>
instvars == <<conf, running, pending>>
stopvars == <<todo, cur, tries, deferred>>
updvars == <<uver, existing, uerr>>
histvars == <<faulted, log, link0, run0, prev>>
fanvars == <<tfs, stack, fcall, active, flog, lid>>
arcvars == <<arc, apos, xct, xver, tree, escaped, made>>
netvars == <<net, reqs, hsrc, hauth, cache, obody>>
yvars == <<netvars, removed, procs>>
xvars == <<fanvars, arcvars, yvars>>

vars ==
    <<rdirs, rfilter, rout, rpc, versions, link, conf, running, pending, cmd,
      pc, calls, todo, cur, tries, deferred, uver, existing, uerr, result,
      warned, faulted, log, link0, run0, prev, tfs, stack, fcall, active,
      flog, lid, arc, apos, xct, xver, tree, escaped, made, net, reqs, hsrc,
      hauth, cache, obody, removed, procs>>

\* hosts: h == ALL stands for every host
ALL == "all"
HostList == <<"h1", "h2">>

\* ct == nil, and the components ct.OrList() gives for it
NoComponent == "any"
ComponentList == <<"netprobe", "san">>

\* ct.RelatedTypes
RelatedTypes(ct) == IF ct = "san" THEN <<"netprobe", "fa2">> ELSE <<>>

Target(h, ct) == [h |-> h, ct |-> ct]
NoTarget == Target("-", "-")

\* the targets Update reaches in the end: a host and a component with a
\* packages directory of its own
Leaves == {Target(h, ct) : h \in {"h1", "h2"}, ct \in {"netprobe", "fa2", "san"}}

NoLinks == [b \in Basenames |-> NoName]
EmptyDir == [versions |-> {}, link |-> NoLinks]

\* ------------------------------------------------------------------------
\* Archives: file names, tar entries and paths
\* ------------------------------------------------------------------------

\* most entries in an archive
MaxEntries == 2

\* a path is the sequence of its components, "/" first when it is absolute,
\* "" last when it ends in a slash
Root == "/"

IsAbs(p) == p # <<>> /\ p[1] = Root

\* filepath.Clean, one component at a time
RECURSIVE CleanInto(_, _)
CleanInto(p, acc) ==
    IF p = <<>> THEN acc
    ELSE LET c == Head(p)
         IN  IF c = "" \/ c = "." THEN CleanInto(Tail(p), acc)
             ELSE IF c # ".." THEN CleanInto(Tail(p), Append(acc, c))
             ELSE IF acc = <<>> \/ acc[Len(acc)] = ".."
                  THEN CleanInto(Tail(p), Append(acc, c))
             ELSE IF acc[Len(acc)] = Root THEN CleanInto(Tail(p), acc)
             ELSE CleanInto(Tail(p), SubSeq(acc, 1, Len(acc) - 1))

PathClean(p) == CleanInto(p, <<>>)

\* the path leaves the directory it is relative to
Outside(p) == IsAbs(p) \/ (p # <<>> /\ p[1] = "..")

\* host.CleanRelativePath: the cleaned path, or an error for a path that is
\* absolute or leaves the directory
CleanRelativePath(p) ==
    IF Outside(PathClean(p))
    THEN [ok |-> FALSE, path |-> <<>>]
    ELSE [ok |-> TRUE, path |-> PathClean(p)]

\* strings.TrimPrefix(name, dir + "/")
TrimDir(name, dir) ==
    IF Len(name) >= 2 /\ name[1] = dir THEN Tail(name) ELSE name

\* fnname: the leading directory taken off the names of the entries
fnname(ct, name) ==
    CASE ct = "webserver" -> name
      [] ct = "fa2" -> TrimDir(name, "fix-analyser2")
      [] ct = "fileagent" -> TrimDir(name, "agent")
      [] OTHER -> TrimDir(name, ct)

\* name == ""
EmptyName(name) == name = <<>> \/ name = <<"">>

\* the name of a version directory as one component of a path
DirComponent(v) ==
    CASE v = VA -> "9.9"
      [] v = VB -> "9.10"
      [] v = VGB -> "GA9.10"
      [] v = VPartial -> "9.1"
      [] OTHER -> "?"

DirVersions == {VA, VB, VGB, VPartial}

\* what a version directory holds: a file, directory or link at a path;
\* from is the entry of the archive it was made from, 0 when it was there
\* before
Item(d, p, ty, tg, k) ==
    [dir |-> d, path |-> p, type |-> ty, target |-> tg, from |-> k]

OldTree(vs) == {Item(v, <<"x">>, "reg", <<>>, 0) : v \in vs}

ItemsAt(tr, d, p) == {i \in tr : i.dir = d /\ i.path = p}

\* where the operating system finds a path of directory d: links on the way
\* are followed, and the last component too when follow is set; the result
\* is relative to d
RECURSIVE Walk(_, _, _, _, _)
Walk(tr, d, rest, loc, follow) ==
    IF rest = <<>> THEN loc
    ELSE LET next == Append(loc, Head(rest))
             lk   == {i \in ItemsAt(tr, d, next) : i.type = "symlink"}
         IN  IF ~Outside(loc) /\ lk # {} /\ (Tail(rest) # <<>> \/ follow)
             THEN Walk(tr, d, Tail(rest),
                       PathClean(loc \o (CHOOSE i \in lk : TRUE).target),
                       follow)
             ELSE Walk(tr, d, Tail(rest), next, follow)

\* a place relative to version directory d: in d, in another version
\* directory next to it, or elsewhere on the host
Place(d, loc) ==
    IF ~Outside(loc) THEN [where |-> "here", dir |-> d, path |-> loc]
    ELSE IF /\ Len(loc) >= 2
            /\ loc[1] = ".."
            /\ \E v \in DirVersions : DirComponent(v) = loc[2]
         THEN [where |-> "sibling",
               dir |-> CHOOSE v \in DirVersions : DirComponent(v) = loc[2],
               path |-> SubSeq(loc, 3, Len(loc))]
         ELSE [where |-> "elsewhere", dir |-> NoName, path |-> loc]

\* h.MkdirAll: the directories missing on the way to a place are made
MkdirAll(tr, pl, k) ==
    IF pl.where = "elsewhere" THEN tr
    ELSE tr \cup {Item(pl.dir, SubSeq(pl.path, 1, n), "dir", <<>>, k) :
                    n \in {m \in 1..Len(pl.path) :
                             ItemsAt(tr, pl.dir, SubSeq(pl.path, 1, m)) = {}}}

\* h.Create and io.Copy, h.Symlink: the item at a place is written
PutItem(tr, pl, ty, tg, k) ==
    IF pl.where = "elsewhere" THEN tr
    ELSE (tr \ ItemsAt(tr, pl.dir, pl.path))
            \cup {Item(pl.dir, pl.path, ty, tg, k)}

\* the directory of a place
ParentPlace(pl) ==
    [pl EXCEPT !.path = IF @ = <<>> THEN @ ELSE SubSeq(@, 1, Len(@) - 1)]

\* an entry of the archive: its name, its type and the target of a link
Entry(n, ty, tg) == [name |-> n, type |-> ty, linkname |-> tg]

EntryChoices ==
    {Entry(<<"gateway", "x">>, "reg", <<>>),
     Entry(<<"gateway", "">>, "dir", <<>>),
     Entry(<<"d">>, "dir", <<>>),
     Entry(<<"..", "..", "x">>, "reg", <<>>),
     Entry(<<Root, "x">>, "reg", <<>>),
     Entry(<<"l">>, "symlink", <<"..">>),
     Entry(<<"l", "..", "l", "y">>, "reg", <<>>),
     Entry(<<"l", "9.10", "x">>, "reg", <<>>),
     Entry(<<"s">>, "symlink", <<Root, "etc">>),
     Entry(<<"o">>, "fifo", <<>>)}

\* the entry has a name that is absolute or has a parent directory in it
Unsafe(name) == IsAbs(name) \/ \E i \in DOMAIN name : name[i] = ".."

EntryLists(n) == UNION {[1..k -> EntryChoices] : k \in 0..n}

\* archiveRE on the file name: no match, or the component and the version
NoMatch == [matches |-> FALSE, ct |-> NoComponent, version |-> NoName]
FileName(ct, v) == [matches |-> TRUE, ct |-> ct, version |-> v]

\* opts.override: "", TYPE:VERSION, or a string without a colon
NoOverride == [given |-> FALSE, valid |-> FALSE, ct |-> NoComponent, version |-> NoName]
BadOverride == [given |-> TRUE, valid |-> FALSE, ct |-> NoComponent, version |-> NoName]
Override(ct, v) == [given |-> TRUE, valid |-> TRUE, ct |-> ct, version |-> v]

Archive(f, o, es) == [file |-> f, override |-> o, entries |-> es]
NoArchive == Archive(NoMatch, NoOverride, <<>>)

ErrInvalidArgs == [kind |-> "InvalidArgs", name |-> NoName]

NoCmd ==
    [op |-> "none", ct |-> "gateway", base |-> "active_prod", force |-> FALSE,
     restart |-> FALSE, version |-> NoName]

\* the options of a download: a platform suffix, a username, nosave and
\* the kind of server
NetOptions ==
    [platform : BOOLEAN, username : BOOLEAN, nosave : BOOLEAN,
     downloadtype : {"vendor", "nexus"}]
NoNet ==
    [platform |-> FALSE, username |-> FALSE, nosave |-> FALSE,
     downloadtype |-> "vendor"]

\* a call of Update or Unarchive that runs next to another one: where it is,
\* its options and its local variables
NoProc ==
    [pc |-> "idle", op |-> "none", version |-> NoName, ct |-> NoComponent,
     xver |-> NoName, ver |-> NoName, existing |-> NoName, err |-> Nil,
     apos |-> 0, made |-> FALSE]

Procs == {"p1", "p2"}

NoProcs == [p \in Procs |-> NoProc]

\* the variables of a command before it runs
IdleCommand ==
    /\ cmd = NoCmd
    /\ pc = "idle"
    /\ calls = 0
    /\ todo = <<>>
    /\ cur = NoInstance
    /\ tries = 0
    /\ deferred = <<>>
    /\ uver = NoName
    /\ existing = NoName
    /\ uerr = Nil
    /\ result = Nil
    /\ warned = FALSE
    /\ faulted = FALSE
    /\ log = <<>>
    /\ link0 = link
    /\ run0 = running
    /\ prev = NoRun
    /\ stack = <<>>
    /\ fcall = NoTarget
    /\ active = NoTarget
    /\ flog = <<>>
    /\ lid = 0
    /\ arc = NoArchive
    /\ apos = 0
    /\ xct = NoComponent
    /\ xver = NoName
    /\ tree = OldTree(versions)
    /\ escaped = {}
    /\ made = FALSE
    /\ net = NoNet
    /\ reqs = <<>>
    /\ hsrc = FALSE
    /\ hauth = FALSE
    /\ cache = "none"
    /\ obody = "none"
    /\ removed = {}
    /\ procs = NoProcs

IdleResolver ==
    /\ rdirs = {}
    /\ rfilter = <<>>
    /\ rout = NoName
    /\ rpc = "idle"

NoInstances ==
    /\ conf = [i \in Instances |->
                [ctype |-> "netprobe", version |-> "active_dev",
                 protected |-> "false", permitted |-> TRUE]]
    /\ running = [i \in Instances |-> FALSE]
    /\ pending = [i \in Instances |-> "none"]

\* ------------------------------------------------------------------------
\* The version resolver on its own
\* ------------------------------------------------------------------------

InitResolve ==
    /\ rdirs \in SubsetsUpTo(Names, MaxCands)
    /\ rfilter \in Filters
    /\ rout = NoName
    /\ rpc = "call"
    /\ versions = {}
    /\ link = [b \in Basenames |-> NoName]
    /\ NoInstances
    /\ tfs = [t \in Leaves |-> EmptyDir]
    /\ IdleCommand

Resolve ==
    /\ rpc = "call"
    /\ \E r \in latest(rdirs, rfilter, {}) : rout' = r
    /\ rpc' = "done"
    /\ UNCHANGED <<xvars, rdirs, rfilter, fsvars, instvars, cmd, pc, calls, stopvars,
                   updvars, result, warned, histvars>>

NextResolve == Resolve

SpecResolve == InitResolve /\ [][NextResolve]_vars

\* ------------------------------------------------------------------------
\* Update(): activation of a base link
\* ------------------------------------------------------------------------

\* UpdateForceOption mutated: the --force flag is handed on as given
UpdateForceOptionAsGiven(force) == force

\* updateCmd.RunE always hands Force(true) to Update
UpdateForceOption(force) == TRUE

\* the options Update() is called with
OptForce == IF cmd.op = "update" THEN UpdateForceOption(cmd.force) ELSE cmd.force
OptVersion == IF cmd.op \in {"unarchive", "install"} THEN xver ELSE cmd.version
OptBasename == cmd.base

\* if opts.version == "" { opts.version = "latest" }; originalVersion
OriginalVersion(v) == IF v = NoName THEN Latest ELSE v

\* if opts.version == "latest" { opts.version = "" }
VersionFilter(v) == IF v = Latest THEN NoName ELSE v

\* the entries of packages/<component>: version directories and base links
PackageEntries(dirs, links) ==
    dirs \cup {BaseEntry(b) : b \in {x \in Basenames : links[x] # NoName}}

\* LatestVersion(h, ct, version): the resolver over the directories of
\* packages/<component>
LatestVersion(dirs, links, filter) ==
    latest(PackageEntries(dirs, links), filter,
           PackageEntries(dirs, links) \ dirs)

\* ErrUnresolved mutated: the error names opts.version after resolution
ErrUnresolvedResolved(original, version) == ErrNotExist(version)

\* the error when no version resolves
ErrUnresolved(original, version) == ErrNotExist(original)

\* the error when the resolved version has no directory
ErrNoDirectory(original, version) == ErrNotExist(version)

\* KeepsLink mutated: an existing link is kept whatever force says
KeepsLinkIgnoringForce(existingLink, version, force) ==
    existingLink # NoName \/ existingLink = version

\* KeepsLink mutated: the link is rewritten although it has the version
KeepsLinkUnlessForced(existingLink, version, force) ==
    existingLink # NoName /\ ~force

\* (existing != "" && !opts.force) || existing == opts.version
KeepsLink(existingLink, version, force) ==
    (existingLink # NoName /\ ~force) \/ existingLink = version

\* LinkTarget mutated: the link is given the requested version
LinkTargetRequested(version, original) == original

\* h.Symlink(opts.version, basepath)
LinkTarget(version, original) == version

\* AfterRemove mutated: the old link is left in place
AfterRemoveKept(target) == target

\* h.Remove(basepath) of an existing link
AfterRemove(target) == NoName

\* RemoveFails mutated: a link that is gone already is an error too
RemoveFailsOnAnyError(err) == err # Nil

\* RemoveFails mutated: the error of h.Remove is passed over
RemoveFailsNever(err) == FALSE

\* err != nil && !errors.Is(err, fs.ErrNotExist) after h.Remove(basepath)
RemoveFails(err) == err # Nil /\ ~IsNotExist(err)

\* RunEResult mutated: the error of Update is returned as it is
RunEResultAsIs(err) == err

\* the return statements of RunE after Update
RunEResult(err) == IF err # Nil /\ IsNotExist(err) THEN Nil ELSE err

\* Update returns err to its caller: RunE goes on to its deferred calls, a
\* loop of Update over targets takes err, every other caller returns err
UpdateReturns(err) ==
    /\ uerr' = err
    /\ result' = CASE cmd.op = "update" -> RunEResult(err)
                    [] cmd.op = "fanout" -> result
                    [] OTHER -> err
    /\ pc' = CASE cmd.op \in {"update", "install"} /\ deferred # <<>> -> "r_defer"
                [] cmd.op = "fanout" -> "f_return"
                [] OTHER -> "done"

UpdateResolve ==
    /\ pc = "u_resolve"
    /\ LET original == OriginalVersion(OptVersion)
       IN  \E fault \in BOOLEAN :
           \E r \in IF fault THEN {NoName}
                    ELSE LatestVersion(versions, link, VersionFilter(original)) :
              /\ uver' = r
              /\ faulted' = (faulted \/ fault)
              /\ IF r = NoName
                 THEN UpdateReturns(ErrUnresolved(original, r))
                 ELSE pc' = "u_readlink" /\ UNCHANGED <<uerr, result>>
    /\ UNCHANGED <<xvars, rvars, fsvars, instvars, cmd, calls, stopvars, existing,
                   warned, log, link0, run0, prev>>

UpdateReadlink ==
    /\ pc = "u_readlink"
    /\ \E fault \in IF link[OptBasename] = NoName THEN {FALSE} ELSE BOOLEAN :
          /\ existing' = IF fault THEN NoName ELSE link[OptBasename]
          /\ faulted' = (faulted \/ fault)
    /\ pc' = "u_stat"
    /\ UNCHANGED <<xvars, rvars, fsvars, instvars, cmd, calls, stopvars, uver, uerr,
                   result, warned, log, link0, run0, prev>>

UpdateStat ==
    /\ pc = "u_stat"
    /\ \E fault \in BOOLEAN :
          /\ faulted' = (faulted \/ fault)
          /\ IF fault \/ uver \notin versions
             THEN /\ log' = Append(log, Event("stat", NoInstance, "failed"))
                  /\ UpdateReturns(
                        ErrNoDirectory(OriginalVersion(OptVersion), uver))
             ELSE /\ UNCHANGED log
                  /\ IF KeepsLink(existing, uver, OptForce)
                     THEN UpdateReturns(Nil)
                     ELSE pc' = "u_remove" /\ UNCHANGED <<uerr, result>>
    /\ UNCHANGED <<xvars, rvars, fsvars, instvars, cmd, calls, stopvars, uver,
                   existing, warned, link0, run0, prev>>

UpdateRemove ==
    /\ pc = "u_remove"
    /\ IF link[OptBasename] = NoName
       THEN /\ log' = Append(log, Event("remove", NoInstance, "absent"))
            /\ pc' = "u_symlink"
            /\ UNCHANGED <<link, uerr, result, faulted>>
       ELSE \E fault \in BOOLEAN :
               /\ faulted' = (faulted \/ fault)
               /\ IF fault
                  THEN /\ log' = Append(log, Event("remove", NoInstance, "failed"))
                       /\ UNCHANGED link
                       /\ IF RemoveFails(ErrIO)
                          THEN UpdateReturns(ErrIO)
                          ELSE pc' = "u_symlink" /\ UNCHANGED <<uerr, result>>
                  ELSE /\ log' = Append(log, Event("remove", NoInstance, "removed"))
                       /\ link' = [link EXCEPT
                                     ![OptBasename] = AfterRemove(link[OptBasename])]
                       /\ pc' = "u_symlink"
                       /\ UNCHANGED <<uerr, result>>
    /\ UNCHANGED <<xvars, rvars, versions, instvars, cmd, calls, stopvars, uver,
                   existing, warned, link0, run0, prev>>

UpdateSymlink ==
    /\ pc = "u_symlink"
    /\ \E fault \in BOOLEAN :
          /\ faulted' = (faulted \/ fault)
          /\ IF fault \/ link[OptBasename] # NoName
             THEN /\ log' = Append(log, Event("symlink", NoInstance, "failed"))
                  /\ UpdateReturns(ErrIO)
                  /\ UNCHANGED link
             ELSE /\ log' = Append(log, Event("symlink", NoInstance, "created"))
                  /\ link' = [link EXCEPT
                                ![OptBasename] =
                                    LinkTarget(uver, OriginalVersion(OptVersion))]
                  /\ UpdateReturns(Nil)
    /\ UNCHANGED <<xvars, rvars, versions, instvars, cmd, calls, stopvars, uver,
                   existing, warned, link0, run0, prev>>

\* the process running the command is killed inside Update
Crash ==
    /\ pc \in {"u_readlink", "u_stat", "u_remove", "u_symlink"}
    /\ pc' = "crashed"
    /\ UNCHANGED <<xvars, rvars, fsvars, instvars, cmd, calls, stopvars, updvars,
                   result, warned, histvars>>

\* ------------------------------------------------------------------------
\* Unarchive(): component and version, the version directory, the entries
\* of the archive and the call of Update
\* ------------------------------------------------------------------------

\* the outcome of one round of the loop over the entries
Round(nx, tr, vs, esc, why) ==
    [next |-> nx, tree |-> tr, versions |-> vs, escaped |-> esc, why |-> why]

\* a directory made next to the version directories is one more of them
WithDir(vs, pl) == IF pl.where = "sibling" THEN vs \cup {pl.dir} ELSE vs

\* what was made elsewhere on the host
WithEscape(esc, pl, e, k) ==
    IF pl.where = "elsewhere"
    THEN esc \cup {[entry |-> k, path |-> pl.path, unsafe |-> Unsafe(e.name)]}
    ELSE esc

\* case tar.TypeReg: MkdirAll of the directory, Create, Copy
ExtractFile(tr, vs, esc, d, p, e, k) ==
    LET pl == Place(d, Walk(tr, d, p, <<>>, TRUE))
    IN  IF \/ pl.path = <<>>
           \/ \E i \in ItemsAt(tr, pl.dir, pl.path) : i.type = "dir"
           \/ (pl.where = "elsewhere" /\ \A i \in DOMAIN pl.path : pl.path[i] = "..")
        THEN Round("error", tr, vs, esc, "create")
        ELSE Round("continue",
                   PutItem(MkdirAll(tr, ParentPlace(pl), k), pl, "reg", <<>>, k),
                   WithDir(vs, pl), WithEscape(esc, pl, e, k), "")

\* case tar.TypeDir: MkdirAll
ExtractDir(tr, vs, esc, d, p, e, k) ==
    LET pl == Place(d, Walk(tr, d, p, <<>>, TRUE))
    IN  IF pl.where = "elsewhere" /\ \A i \in DOMAIN pl.path : pl.path[i] = ".."
        THEN Round("continue", tr, vs, esc, "")
        ELSE Round("continue", MkdirAll(tr, pl, k), WithDir(vs, pl),
                   WithEscape(esc, pl, e, k), "")

\* AbsTargetIsFatal mutated: the entry is passed over
AbsTargetSkipped == FALSE

\* log.Fatal() for a link with an absolute target
AbsTargetIsFatal == TRUE

\* case tar.TypeSymlink: the target is looked at, then Stat and Symlink
ExtractLink(tr, vs, esc, d, p, e, k) ==
    LET pl == Place(d, Walk(tr, d, p, <<>>, FALSE))
        up == ParentPlace(pl)
    IN  IF IsAbs(e.linkname)
        THEN IF AbsTargetIsFatal
             THEN Round("fatal", tr, vs, esc, "abslink")
             ELSE Round("continue", tr, vs, esc, "")
        ELSE IF pl.where # "elsewhere" /\ ItemsAt(tr, pl.dir, pl.path) # {}
             THEN Round("continue", tr, vs, esc, "")
        ELSE IF \/ pl.path = <<>>
                \/ /\ pl.where # "elsewhere"
                   /\ up.path # <<>>
                   /\ \A i \in ItemsAt(tr, up.dir, up.path) : i.type # "dir"
                \/ (pl.where = "sibling" /\ pl.dir \notin vs)
             THEN Round("fatal", tr, vs, esc, "symlink")
        ELSE Round("continue", PutItem(tr, pl, "symlink", e.linkname, k), vs,
                   WithEscape(esc, pl, e, k), "")

\* the body of the loop for entry e, the k-th of the archive
ExtractEntry(tr, vs, esc, d, ct, e, k) ==
    LET name == fnname(ct, e.name)
        cr   == CleanRelativePath(name)
    IN  IF EmptyName(name) THEN Round("continue", tr, vs, esc, "")
        ELSE IF ~cr.ok THEN Round("fatal", tr, vs, esc, "path")
        ELSE CASE e.type = "reg" -> ExtractFile(tr, vs, esc, d, cr.path, e, k)
               [] e.type = "dir" -> ExtractDir(tr, vs, esc, d, cr.path, e, k)
               [] e.type = "symlink" -> ExtractLink(tr, vs, esc, d, cr.path, e, k)
               [] OTHER -> Round("continue", tr, vs, esc, "")

\* AlreadyInstalled mutated: a directory without a file in it does not count
AlreadyInstalledWithFiles(vs, v) ==
    v \in vs /\ \E i \in tree : i.dir = v /\ i.type = "reg"

\* AlreadyInstalled mutated: the directory is never found
AlreadyInstalledNever(vs, v) == FALSE

\* if _, err = h.Stat(basedir); err == nil { return }
AlreadyInstalled(vs, v) == v \in vs

\* component and version from the file name or from the override
UnarchiveParse ==
    /\ pc = "x_parse"
    /\ IF ~arc.override.given
       THEN IF ~arc.file.matches
            THEN /\ result' = ErrInvalidArgs
                 /\ pc' = "done"
                 /\ UNCHANGED <<xct, xver>>
            ELSE /\ xver' = arc.file.version
                 /\ IF cmd.ct \in {"none", "san"}
                    THEN xct' = arc.file.ct /\ pc' = "x_stat" /\ UNCHANGED result
                    ELSE IF cmd.ct = arc.file.ct
                         THEN xct' = cmd.ct /\ pc' = "x_stat" /\ UNCHANGED result
                         ELSE /\ result' = Nil
                              /\ pc' = "done"
                              /\ xct' = cmd.ct
       ELSE IF ~arc.override.valid
            THEN /\ result' = ErrInvalidArgs
                 /\ pc' = "done"
                 /\ UNCHANGED <<xct, xver>>
            ELSE /\ xct' = arc.override.ct
                 /\ xver' = arc.override.version
                 /\ pc' = "x_stat"
                 /\ UNCHANGED result
    /\ UNCHANGED <<yvars, fanvars, arc, apos, tree, escaped, made, rvars, fsvars,
                   instvars, cmd, calls, stopvars, updvars, warned, histvars>>

\* h.Stat(basedir) and h.MkdirAll(basedir)
UnarchiveStat ==
    /\ pc = "x_stat"
    /\ IF AlreadyInstalled(versions, xver)
       THEN /\ result' = Nil
            /\ pc' = "done"
            /\ UNCHANGED <<versions, faulted, made>>
       ELSE \E fault \in BOOLEAN :
               /\ faulted' = (faulted \/ fault)
               /\ IF fault
                  THEN result' = ErrIO /\ pc' = "done" /\ UNCHANGED <<versions, made>>
                  ELSE /\ versions' = versions \cup {xver}
                       /\ made' = TRUE
                       /\ pc' = "x_open"
                       /\ UNCHANGED result
    /\ UNCHANGED <<yvars, fanvars, arc, apos, xct, xver, tree, escaped, rvars, link,
                   instvars, cmd, calls, stopvars, updvars, warned, log, link0,
                   run0, prev>>

\* gzip.NewReader(gz)
UnarchiveOpen ==
    /\ pc = "x_open"
    /\ \E fault \in BOOLEAN :
          /\ faulted' = (faulted \/ fault)
          /\ IF fault
             THEN result' = ErrIO /\ pc' = "done"
             ELSE pc' = "x_extract" /\ UNCHANGED result
    /\ UNCHANGED <<xvars, rvars, fsvars, instvars, cmd, calls, stopvars,
                   updvars, warned, log, link0, run0, prev>>

\* one round of the loop: tr.Next(), then the entry; after the last entry
\* Update is called with the options and Version(version)
UnarchiveExtract ==
    /\ pc = "x_extract"
    /\ IF apos = Len(arc.entries)
       THEN /\ pc' = IF cmd.op = "install" THEN "r_loop" ELSE "u_resolve"
            /\ UNCHANGED <<versions, tree, escaped, apos, result, log, faulted>>
       ELSE \E fault \in BOOLEAN :
            LET r == ExtractEntry(tree, versions, escaped, xver, xct,
                                  arc.entries[apos + 1], apos + 1)
            IN  /\ faulted' = (faulted \/ fault)
                /\ IF fault \/ r.next = "error"
                   THEN /\ result' = ErrIO
                        /\ pc' = "done"
                        /\ UNCHANGED <<versions, tree, escaped, apos, log>>
                   ELSE /\ apos' = apos + 1
                        /\ tree' = r.tree
                        /\ versions' = r.versions
                        /\ escaped' = r.escaped
                        /\ UNCHANGED result
                        /\ IF r.next = "fatal"
                           THEN /\ pc' = "fatal"
                                /\ log' = Append(log, Event("fatal", NoInstance, r.why))
                           ELSE /\ pc' = "x_extract"
                                /\ UNCHANGED log
    /\ UNCHANGED <<yvars, fanvars, arc, xct, xver, made, rvars, link, instvars, cmd,
                   calls, stopvars, updvars, warned, link0, run0, prev>>

\* ------------------------------------------------------------------------
\* Activation on its own: Update() and Unarchive() called on a host with
\* any installed versions and base links
\* ------------------------------------------------------------------------

InstallNames == {VA, VB, VGB}

ActivateRequests == {NoName, Latest, VA, VB, VPartial, VMissing}

FirstPc(op) ==
    CASE op = "activate" -> "u_resolve"
      [] op = "unarchive" -> "x_parse"
      [] OTHER -> "r_guard"

InitActivate ==
    /\ IdleResolver
    /\ versions \in SUBSET InstallNames
    /\ link \in [Basenames -> versions \cup {NoName}]
    /\ NoInstances
    /\ tfs = [t \in Leaves |-> EmptyDir]
    /\ IdleCommand

BeginActivate ==
    /\ pc = "idle"
    /\ \E b \in Basenames, f \in BOOLEAN, v \in ActivateRequests :
          cmd' = [op |-> "activate", ct |-> "gateway", base |-> b,
                  force |-> f, restart |-> FALSE, version |-> v]
    /\ pc' = FirstPc("activate")
    /\ calls' = 1
    /\ UNCHANGED <<xvars, rvars, fsvars, instvars, stopvars, updvars, result, warned,
                   histvars>>

\* Unarchive() of an archive named after the component, with one file
BeginUnarchive ==
    /\ pc = "idle"
    /\ \E b \in Basenames, f \in BOOLEAN, v \in InstallNames :
          /\ cmd' = [op |-> "unarchive", ct |-> "gateway", base |-> b,
                     force |-> f, restart |-> FALSE, version |-> v]
          /\ arc' = Archive(FileName("gateway", v), NoOverride,
                            <<Entry(<<"gateway", "x">>, "reg", <<>>)>>)
    /\ pc' = FirstPc("unarchive")
    /\ calls' = 1
    /\ UNCHANGED <<yvars, fanvars, apos, xct, xver, tree, escaped, made, rvars, fsvars,
                   instvars, stopvars, updvars, result, warned, histvars>>

\* the same command line is run once more
Again ==
    /\ pc = "done"
    /\ calls < MaxCalls
    /\ calls' = calls + 1
    /\ pc' = FirstPc(cmd.op)
    /\ prev' = result
    /\ todo' = <<>>
    /\ cur' = NoInstance
    /\ tries' = 0
    /\ deferred' = <<>>
    /\ uver' = NoName
    /\ existing' = NoName
    /\ uerr' = Nil
    /\ result' = Nil
    /\ warned' = FALSE
    /\ faulted' = FALSE
    /\ log' = <<>>
    /\ link0' = link
    /\ run0' = running
    /\ apos' = 0
    /\ xct' = NoComponent
    /\ xver' = NoName
    /\ made' = FALSE
    /\ UNCHANGED <<yvars, fanvars, arc, tree, escaped, rvars, fsvars, instvars, cmd>>

NextActivate ==
    \/ BeginActivate
    \/ BeginUnarchive
    \/ Again
    \/ UpdateResolve
    \/ UpdateReadlink
    \/ UpdateStat
    \/ UpdateRemove
    \/ UpdateSymlink
    \/ UnarchiveParse
    \/ UnarchiveStat
    \/ UnarchiveOpen
    \/ UnarchiveExtract
    \/ Crash

SpecActivate == InitActivate /\ [][NextActivate]_vars

\* ------------------------------------------------------------------------
\* Unarchive() on its own: any file name, override and entries
\* ------------------------------------------------------------------------

\* the file name and the override of a call
ArchiveNames ==
    {<<NoMatch, NoOverride>>,
     <<FileName("gateway", VA), NoOverride>>,
     <<FileName("gateway", VPartial), NoOverride>>,
     <<NoMatch, BadOverride>>,
     <<NoMatch, Override("gateway", VA)>>}

InitUnpack ==
    /\ IdleResolver
    /\ versions \in {{}, {VA}, {VB}}
    /\ link \in {l \in [Basenames -> versions \cup {NoName}] :
                    l["active_dev"] = NoName}
    /\ NoInstances
    /\ tfs = [t \in Leaves |-> EmptyDir]
    /\ IdleCommand

BeginUnpack ==
    /\ pc = "idle"
    /\ \E f \in BOOLEAN, ct \in {"gateway", "netprobe", "none"},
          fo \in ArchiveNames, es \in EntryLists(MaxEntries) :
          /\ cmd' = [op |-> "unarchive", ct |-> ct, base |-> "active_prod",
                     force |-> f, restart |-> FALSE, version |-> Latest]
          /\ arc' = Archive(fo[1], fo[2], es)
    /\ pc' = FirstPc("unarchive")
    /\ calls' = 1
    /\ UNCHANGED <<yvars, fanvars, apos, xct, xver, tree, escaped, made, rvars, fsvars,
                   instvars, stopvars, updvars, result, warned, histvars>>

NextUnpack ==
    \/ BeginUnpack
    \/ Again
    \/ UnarchiveParse
    \/ UnarchiveStat
    \/ UnarchiveOpen
    \/ UnarchiveExtract
    \/ UpdateResolve
    \/ UpdateReadlink
    \/ UpdateStat
    \/ UpdateRemove
    \/ UpdateSymlink

SpecUnpack == InitUnpack /\ [][NextUnpack]_vars

\* ------------------------------------------------------------------------
\* Instances and their processes
\* ------------------------------------------------------------------------

\* instance.MatchKeyValue(h, ct, key, value): the instances of the component
\* whose configuration has the value under the key, in listing order
MatchKeyValue(ct, key, value) ==
    SelectSeq(InstanceOrder,
              LAMBDA i : conf[i].ctype = ct /\ conf[i][key] = value)

\* Signal(c, sig): the process is gone, or may not be signalled, or gets it
SignalResult(i) ==
    IF ~running[i] THEN ErrProcessDone
    ELSE IF ~conf[i].permitted THEN ErrPerm
    ELSE Nil

\* the signal the process of i has received after Signal(i, sig)
Delivered(i, sig) ==
    IF SignalResult(i) = Nil
    THEN [pending EXCEPT ![i] = IF @ = "KILL" THEN @ ELSE sig]
    ELSE pending

\* GetPID(c): the error it returns
GetPIDErr(i) == IF running[i] THEN Nil ELSE ErrProcessDone

\* a process that has received a signal exits
ProcessExit(i) ==
    /\ pc \notin {"idle", "done", "crashed"}
    /\ running[i]
    /\ pending[i] # "none"
    /\ running' = [running EXCEPT ![i] = FALSE]
    /\ pending' = [pending EXCEPT ![i] = "none"]
    /\ UNCHANGED <<xvars, rvars, fsvars, conf, cmd, pc, calls, stopvars, updvars,
                   result, warned, histvars>>

\* ------------------------------------------------------------------------
\* Stop(c, force): the stop escalation
\* ------------------------------------------------------------------------

\* StopEntry mutated: the graceful phase is run whatever force is
StopEntryGraceful(force) == "s_term"

\* if !force { ... }: where Stop begins
StopEntry(force) == IF force THEN "s_kill" ELSE "s_term"

\* DefersStart mutated: only a failed Stop schedules the Start
DefersStartOnError(err) == err # Nil

\* if err = instance.Stop(...); err == nil { defer instance.Start(c) }
DefersStart(err) == err = Nil

\* Stop returns err to RunE, which goes on with its loop, or to
\* deleteInstance, which returns an error and else goes on; the log, lg so
\* far, records whether the process was gone when Stop returned, and the
\* error
StopReturns(err, lg) ==
    /\ deferred' = IF cmd.op # "delete" /\ DefersStart(err)
                   THEN <<cur>> \o deferred
                   ELSE deferred
    /\ log' = Append(Append(lg, Event("stopped", cur,
                                      IF running[cur] THEN "alive" ELSE "gone")),
                     Event("return", cur, err.kind))
    /\ pc' = CASE cmd.op # "delete" -> "r_loop"
                [] err # Nil -> "d_loop"
                [] OTHER -> "d_remove"

\* the first Signal(c, SIGTERM)
StopTerm ==
    /\ pc = "s_term"
    /\ LET err == SignalResult(cur)
           lg  == Append(log, Event("SIGTERM", cur, err.kind))
       IN  /\ pending' = Delivered(cur, "TERM")
           /\ IF err = ErrProcessDone
              THEN StopReturns(Nil, lg) /\ UNCHANGED tries
              ELSE IF err = ErrPerm
                   THEN StopReturns(Nil, lg) /\ UNCHANGED tries
                   ELSE /\ pc' = "s_retry"
                        /\ tries' = 0
                        /\ log' = lg
                        /\ UNCHANGED deferred
    /\ UNCHANGED <<xvars, rvars, fsvars, conf, running, cmd, calls, todo, cur,
                   updvars, result, warned, faulted, link0, run0, prev>>

\* one round of the loop: sleep, Signal(c, SIGTERM)
StopRetry ==
    /\ pc = "s_retry"
    /\ tries < StopRetries
    /\ LET err == SignalResult(cur)
       IN  /\ log' = Append(log, Event("SIGTERM", cur, err.kind))
           /\ pending' = Delivered(cur, "TERM")
           /\ tries' = tries + 1
           /\ pc' = IF err = ErrProcessDone \/ tries + 1 = StopRetries
                    THEN "s_poll"
                    ELSE "s_retry"
    /\ UNCHANGED <<xvars, rvars, fsvars, conf, running, cmd, calls, todo, cur,
                   deferred, updvars, result, warned, faulted, link0, run0,
                   prev>>

\* GetPID after the loop
StopPoll ==
    /\ pc = "s_poll"
    /\ IF GetPIDErr(cur) = ErrProcessDone
       THEN StopReturns(Nil, log)
       ELSE pc' = "s_kill" /\ UNCHANGED <<deferred, log>>
    /\ UNCHANGED <<xvars, rvars, fsvars, instvars, cmd, calls, todo, cur, tries,
                   updvars, result, warned, faulted, link0, run0, prev>>

\* Signal(c, SIGKILL)
StopKill ==
    /\ pc = "s_kill"
    /\ LET err == SignalResult(cur)
           lg  == Append(log, Event("SIGKILL", cur, err.kind))
       IN  /\ pending' = Delivered(cur, "KILL")
           /\ IF err = ErrProcessDone
              THEN StopReturns(Nil, lg)
              ELSE pc' = "s_killed" /\ log' = lg /\ UNCHANGED deferred
    /\ UNCHANGED <<xvars, rvars, fsvars, conf, running, cmd, calls, todo, cur, tries,
                   updvars, result, warned, faulted, link0, run0, prev>>

\* sleep, GetPID, return
StopKilled ==
    /\ pc = "s_killed"
    /\ LET err == GetPIDErr(cur)
       IN  IF err = ErrProcessDone
           THEN StopReturns(Nil, log)
           ELSE StopReturns(err, log)
    /\ UNCHANGED <<xvars, rvars, fsvars, instvars, cmd, calls, todo, cur, tries,
                   updvars, result, warned, faulted, link0, run0, prev>>

\* ------------------------------------------------------------------------
\* updateCmd.RunE: the `package update` command
\* ------------------------------------------------------------------------

\* ProtectedSet mutated: only the protected instances bound to the base name
ProtectedSetOnBase(ct, base) ==
    SelectSeq(MatchKeyValue(ct, "protected", "true"),
              LAMBDA i : conf[i].version = base)

\* cs := instance.MatchKeyValue(h, ct, "protected", "true")
ProtectedSet(ct, base) == MatchKeyValue(ct, "protected", "true")

\* RestartSet mutated: every instance of the component
RestartSetOfComponent(ct, base) == MatchKeyValue(ct, "ctype", ct)

\* cs := instance.MatchKeyValue(h, ct, "version", updateCmdBase)
RestartSet(ct, base) == MatchKeyValue(ct, "version", base)

\* GuardAborts mutated: the protected instances are not looked at
GuardAbortsNever(protected, force) == FALSE

\* len(cs) > 0 && !updateCmdForce
GuardAborts(protected, force) == protected # <<>> /\ ~force

RunGuard ==
    /\ pc = "r_guard"
    /\ IF GuardAborts(ProtectedSet(cmd.ct, cmd.base), cmd.force)
       THEN /\ warned' = TRUE
            /\ result' = Nil
            /\ pc' = "done"
            /\ UNCHANGED todo
       ELSE /\ todo' = IF cmd.restart
                       THEN RestartSet(cmd.ct, cmd.base)
                       ELSE <<>>
            /\ pc' = "r_loop"
            /\ UNCHANGED <<warned, result>>
    /\ UNCHANGED <<xvars, rvars, fsvars, instvars, cmd, calls, cur, tries, deferred,
                   updvars, histvars>>

\* for _, c := range cs { Stop(c, ...) }; then Update
RunLoop ==
    /\ pc = "r_loop"
    /\ IF todo = <<>>
       THEN pc' = "u_resolve" /\ UNCHANGED <<todo, cur, tries>>
       ELSE /\ cur' = Head(todo)
            /\ todo' = Tail(todo)
            /\ tries' = 0
            /\ pc' = StopEntry(cmd.force)
    /\ UNCHANGED <<xvars, rvars, fsvars, instvars, cmd, calls, deferred, updvars,
                   result, warned, histvars>>

\* instance.Start(c) of a deferred call: nothing to do for a running
\* instance, else the process is started or the start fails
RunDefer ==
    /\ pc = "r_defer"
    /\ deferred # <<>>
    /\ LET i == Head(deferred)
       IN  IF running[i]
           THEN /\ log' = Append(log, Event("start", i, "running"))
                /\ UNCHANGED <<running, pending>>
           ELSE \E ok \in BOOLEAN :
                   IF ok
                   THEN /\ log' = Append(log, Event("start", i, "started"))
                        /\ running' = [running EXCEPT ![i] = TRUE]
                        /\ pending' = [pending EXCEPT ![i] = "none"]
                   ELSE /\ log' = Append(log, Event("start", i, "failed"))
                        /\ UNCHANGED <<running, pending>>
    /\ deferred' = Tail(deferred)
    /\ pc' = IF Tail(deferred) = <<>> THEN "done" ELSE "r_defer"
    /\ UNCHANGED <<xvars, rvars, fsvars, conf, cmd, calls, todo, cur, tries,
                   updvars, result, warned, faulted, link0, run0, prev>>

\* ------------------------------------------------------------------------
\* The rollout: `package update` on a host with two installed versions
\* ------------------------------------------------------------------------

Configs ==
    [ctype : Components, version : Basenames, protected : {"true", "false"},
     permitted : BOOLEAN]

RolloutRequests == {Latest, VMissing}

Init ==
    /\ IdleResolver
    /\ versions = {VA, VB}
    /\ link \in [Basenames -> {NoName, VA}]
    /\ conf \in [Instances -> Configs]
    /\ running \in [Instances -> BOOLEAN]
    /\ pending = [i \in Instances |-> "none"]
    /\ tfs = [t \in Leaves |-> EmptyDir]
    /\ IdleCommand

BeginUpdate ==
    /\ pc = "idle"
    /\ \E b \in Basenames, f \in BOOLEAN, r \in BOOLEAN, v \in RolloutRequests :
          cmd' = [op |-> "update", ct |-> "gateway", base |-> b,
                  force |-> f, restart |-> r, version |-> v]
    /\ pc' = FirstPc("update")
    /\ calls' = 1
    /\ UNCHANGED <<xvars, rvars, fsvars, instvars, stopvars, updvars, result, warned,
                   histvars>>

Next ==
    \/ BeginUpdate
    \/ RunGuard
    \/ RunLoop
    \/ StopTerm
    \/ StopRetry
    \/ StopPoll
    \/ StopKill
    \/ StopKilled
    \/ \E i \in Instances : ProcessExit(i)
    \/ UpdateResolve
    \/ UpdateReadlink
    \/ UpdateStat
    \/ UpdateRemove
    \/ UpdateSymlink
    \/ RunDefer
    \/ Crash

Spec == Init /\ [][Next]_vars

\* Stop runs in the goroutine of the command: between two of its statements
\* there is at most a sleep of 250ms, so a Stop that has begun goes on
StopStep == StopTerm \/ StopRetry \/ StopPoll \/ StopKill \/ StopKilled

FairSpec == Spec /\ WF_vars(StopStep)

\* ------------------------------------------------------------------------
\* Update(): the loops over components, related components and hosts
\* ------------------------------------------------------------------------

\* FanKind mutated: the related components are not looked at
FanKindOwn(h, ct) ==
    IF ct = NoComponent THEN "components"
    ELSE IF h = ALL THEN "hosts"
    ELSE "single"

\* which of the branches at the head of Update the call takes
FanKind(h, ct) ==
    IF ct = NoComponent THEN "components"
    ELSE IF RelatedTypes(ct) # <<>> THEN "related"
    ELSE IF h = ALL THEN "hosts"
    ELSE "single"

\* the calls of Update the loop of that branch makes, in order
FanTargets(h, ct) ==
    CASE FanKind(h, ct) = "components" ->
            [i \in 1..Len(ComponentList) |-> Target(h, ComponentList[i])]
      [] FanKind(h, ct) = "related" ->
            [i \in 1..Len(RelatedTypes(ct)) |-> Target(h, RelatedTypes(ct)[i])]
      [] FanKind(h, ct) = "hosts" ->
            [i \in 1..Len(HostList) |-> Target(HostList[i], ct)]
      [] OTHER -> <<>>

\* LoopContinues mutated: an error other than not-exist ends the loop
LoopContinuesUnlessHardError(err) == err = Nil \/ IsNotExist(err)

\* the body of each loop has no break and no return
LoopContinues(err) == TRUE

\* err != nil && !errors.Is(err, os.ErrNotExist): log.Error()
LogsError(err) == err # Nil /\ ~IsNotExist(err)

\* `return nil` after the loops over components and related components,
\* `return` (the err last assigned) after the loop over hosts
LoopResult(kind, err) == IF kind = "hosts" THEN err ELSE Nil

\* entry of Update(h, ct, options...): one of the loops, or the one target
FanEnter ==
    /\ pc = "f_enter"
    /\ IF FanKind(fcall.h, fcall.ct) # "single"
       THEN /\ stack' = <<[id |-> lid + 1,
                           kind |-> FanKind(fcall.h, fcall.ct),
                           rest |-> FanTargets(fcall.h, fcall.ct),
                           n |-> Len(FanTargets(fcall.h, fcall.ct)),
                           err |-> Nil]>> \o stack
            /\ lid' = lid + 1
            /\ pc' = "f_loop"
            /\ UNCHANGED <<fsvars, active, updvars>>
       ELSE /\ versions' = tfs[fcall].versions
            /\ link' = tfs[fcall].link
            /\ active' = fcall
            /\ uver' = NoName
            /\ existing' = NoName
            /\ uerr' = Nil
            /\ pc' = "u_resolve"
            /\ UNCHANGED <<stack, lid>>
    /\ UNCHANGED <<yvars, rvars, instvars, cmd, calls, stopvars, result, warned,
                   histvars, tfs, fcall, flog, arcvars>>

\* the head of a loop: the next call of Update, or the return after the loop
FanLoop ==
    /\ pc = "f_loop"
    /\ LET f == Head(stack)
       IN  IF f.rest = <<>>
           THEN /\ uerr' = LoopResult(f.kind, f.err)
                /\ stack' = Tail(stack)
                /\ pc' = "f_return"
                /\ UNCHANGED fcall
           ELSE /\ fcall' = Head(f.rest)
                /\ stack' = <<[f EXCEPT !.rest = Tail(f.rest)]>> \o Tail(stack)
                /\ pc' = "f_enter"
                /\ UNCHANGED uerr
    /\ UNCHANGED <<yvars, rvars, fsvars, instvars, cmd, calls, stopvars, uver,
                   existing, result, warned, histvars, tfs, active, flog, lid,
                   arcvars>>

\* a call of Update has returned uerr: to the loop it was made in, which
\* assigns it to err and logs it, or to the caller of the first call
FanReturn ==
    /\ pc = "f_return"
    /\ tfs' = IF active = NoTarget THEN tfs
              ELSE [tfs EXCEPT ![active] = [versions |-> versions, link |-> link]]
    /\ active' = NoTarget
    /\ versions' = {}
    /\ link' = NoLinks
    /\ IF stack = <<>>
       THEN /\ result' = uerr
            /\ pc' = "done"
            /\ UNCHANGED <<stack, flog>>
       ELSE LET f == Head(stack)
            IN  /\ flog' = Append(flog, [loop |-> f.id, kind |-> f.kind,
                                         n |-> f.n, err |-> uerr.kind,
                                         logged |-> LogsError(uerr)])
                /\ UNCHANGED result
                /\ IF LoopContinues(uerr)
                   THEN /\ stack' = <<[f EXCEPT !.err = uerr]>> \o Tail(stack)
                        /\ pc' = "f_loop"
                   ELSE /\ stack' = Tail(stack)
                        /\ pc' = "f_return"
    /\ UNCHANGED <<yvars, rvars, instvars, cmd, calls, stopvars, updvars, warned,
                   histvars, fcall, lid, arcvars>>

\* the directory of a target: nothing installed, or VA and VB with a link
TargetDirs ==
    {EmptyDir,
     [versions |-> {VA, VB},
      link |-> [b \in Basenames |-> IF b = "active_prod" THEN VA ELSE NoName]]}

\* the directory of a component that declares related components
OwnDir ==
    [versions |-> {VA, VB},
     link |-> [b \in Basenames |-> IF b = "active_prod" THEN VA ELSE NoName]]

InitFanout ==
    /\ IdleResolver
    /\ versions = {}
    /\ link = NoLinks
    /\ NoInstances
    /\ tfs \in {t \in [Leaves -> TargetDirs] :
                   \A l \in Leaves : RelatedTypes(l.ct) # <<>> => t[l] = OwnDir}
    /\ IdleCommand

BeginFanout ==
    /\ pc = "idle"
    /\ \E h \in {"h1", ALL}, ct \in {NoComponent, "netprobe", "san"},
          b \in Basenames, f \in BOOLEAN :
          /\ cmd' = [op |-> "fanout", ct |-> ct, base |-> b, force |-> f,
                     restart |-> FALSE, version |-> Latest]
          /\ fcall' = Target(h, ct)
    /\ pc' = "f_enter"
    /\ calls' = 1
    /\ UNCHANGED <<yvars, rvars, fsvars, instvars, stopvars, updvars, result, warned,
                   histvars, tfs, stack, active, flog, lid, arcvars>>

NextFanout ==
    \/ BeginFanout
    \/ FanEnter
    \/ FanLoop
    \/ FanReturn
    \/ UpdateResolve
    \/ UpdateReadlink
    \/ UpdateStat
    \/ UpdateRemove
    \/ UpdateSymlink

SpecFanout == InitFanout /\ [][NextFanout]_vars

\* ------------------------------------------------------------------------
\* OpenArchive() and checkArchive(): the download of an archive
\* ------------------------------------------------------------------------

\* the status codes a server answers with
Statuses == {200, 401, 403, 404, 500}

\* a request as sent, with the status of its answer
Request(method, suffix, body, status) ==
    [method |-> method, suffix |-> suffix, body |-> body, status |-> status]

\* resp.StatusCode
LastStatus == reqs[Len(reqs)].status

ErrHTTP == [kind |-> "HTTP", name |-> NoName]

\* RetriesWithoutPlatform mutated: a 404 is taken as it is
RetriesNever(status, platform) == FALSE

\* resp.StatusCode == 404 && platform != ""
RetriesWithoutPlatform(status, platform) == status = 404 /\ platform

\* resp.StatusCode == 401 || resp.StatusCode == 403, and opts.username != ""
Authenticates(status, username) == status \in {401, 403} /\ username

\* CheckFails mutated: checkArchive hands every response on
CheckFailsNever(status) == FALSE

\* resp.StatusCode > 299 at the end of checkArchive
CheckFails(status) == status > 299

\* resp.StatusCode > 299 in OpenArchive
OpenFails(status) == status > 299

\* http.Get, http.Post, client.Do: an answer with a status, or an error of
\* the transport and log.Fatal()
Send(method, suffix, body, next) ==
    \E ok \in BOOLEAN :
       IF ok
       THEN \E st \in Statuses :
               /\ reqs' = Append(reqs, Request(method, suffix, body, st))
               /\ pc' = next
               /\ UNCHANGED log
       ELSE /\ pc' = "fatal"
            /\ log' = Append(log, Event("fatal", NoInstance, "transport"))
            /\ UNCHANGED reqs

\* the first request: to nexus with the platform in the classifier, to the
\* vendor with the version or the platform suffix as title
CheckGet ==
    /\ pc = "c_get"
    /\ IF net.downloadtype = "nexus"
       THEN /\ Send("GET", net.platform,
                    IF net.username THEN "basic" ELSE "none", "c_check")
            /\ hsrc' = net.platform
       ELSE IF cmd.version # Latest /\ net.platform
            THEN /\ pc' = "fatal"
                 /\ log' = Append(log, Event("fatal", NoInstance, "platform"))
                 /\ UNCHANGED <<reqs, hsrc>>
            ELSE /\ Send("GET", net.platform, "none", "c_retry")
                 /\ hsrc' = net.platform
    /\ UNCHANGED <<fanvars, arcvars, net, hauth, cache, obody, removed, procs, rvars,
                   fsvars, instvars, cmd, calls, stopvars, updvars, result,
                   warned, faulted, link0, run0, prev>>

\* 404 with a platform: the GET again without the title
CheckRetry ==
    /\ pc = "c_retry"
    /\ IF RetriesWithoutPlatform(LastStatus, net.platform)
       THEN Send("GET", FALSE, "none", "c_auth") /\ hsrc' = FALSE
       ELSE pc' = "c_auth" /\ UNCHANGED <<reqs, hsrc, log>>
    /\ UNCHANGED <<fanvars, arcvars, net, hauth, cache, obody, removed, procs, rvars,
                   fsvars, instvars, cmd, calls, stopvars, updvars, result,
                   warned, faulted, link0, run0, prev>>

\* 401 or 403 with a username: POST of the credentials to source
CheckAuth ==
    /\ pc = "c_auth"
    /\ IF Authenticates(LastStatus, net.username)
       THEN Send("POST", hsrc, "creds", "c_repost") /\ hauth' = TRUE
       ELSE pc' = "c_repost" /\ UNCHANGED <<reqs, hauth, log>>
    /\ UNCHANGED <<fanvars, arcvars, net, hsrc, cache, obody, removed, procs, rvars,
                   fsvars, instvars, cmd, calls, stopvars, updvars, result,
                   warned, faulted, link0, run0, prev>>

\* 404 with a platform: POST of auth_body without the title
CheckRepost ==
    /\ pc = "c_repost"
    /\ IF RetriesWithoutPlatform(LastStatus, net.platform)
       THEN /\ Send("POST", FALSE, IF hauth THEN "creds" ELSE "empty", "c_check")
            /\ hsrc' = FALSE
       ELSE pc' = "c_check" /\ UNCHANGED <<reqs, hsrc, log>>
    /\ UNCHANGED <<fanvars, arcvars, net, hauth, cache, obody, removed, procs, rvars,
                   fsvars, instvars, cmd, calls, stopvars, updvars, result,
                   warned, faulted, link0, run0, prev>>

\* the end of checkArchive: the status, then the file name; OpenArchive
\* returns the error of checkArchive
CheckStatus ==
    /\ pc = "c_check"
    /\ IF CheckFails(LastStatus)
       THEN result' = ErrHTTP /\ pc' = "done" /\ UNCHANGED faulted
       ELSE \E fault \in BOOLEAN :
               /\ faulted' = (faulted \/ fault)
               /\ IF fault
                  THEN result' = ErrIO /\ pc' = "done"
                  ELSE pc' = "o_cache" /\ UNCHANGED result
    /\ UNCHANGED <<xvars, rvars, fsvars, instvars, cmd, calls, stopvars,
                   updvars, warned, log, link0, run0, prev>>

\* OpenArchive: a file of that name and length in packages/downloads is
\* returned; else the status is looked at, and the stream is returned
\* when nosave is set
OpenCache ==
    /\ pc = "o_cache"
    /\ \E match \in IF cache = "file" THEN BOOLEAN ELSE {FALSE} :
          IF match
          THEN obody' = "cached" /\ result' = Nil /\ pc' = "done"
          ELSE IF OpenFails(LastStatus)
               THEN result' = ErrHTTP /\ pc' = "done" /\ UNCHANGED obody
          ELSE IF net.nosave
               THEN obody' = "live" /\ result' = Nil /\ pc' = "done"
          ELSE pc' = "o_save" /\ UNCHANGED <<obody, result>>
    /\ UNCHANGED <<fanvars, arcvars, net, reqs, hsrc, hauth, cache, removed, procs,
                   rvars, fsvars, instvars, cmd, calls, stopvars, updvars,
                   warned, histvars>>

\* os.Create(archivePath), io.Copy, Seek: the saved file is returned
OpenSave ==
    /\ pc = "o_save"
    /\ \E fault \in {"none", "create", "copy"} :
          /\ faulted' = (faulted \/ fault # "none")
          /\ cache' = CASE fault = "none" -> "saved"
                        [] fault = "copy" -> "partial"
                        [] OTHER -> cache
          /\ obody' = IF fault = "none" THEN "saved" ELSE obody
          /\ result' = IF fault = "none" THEN Nil ELSE ErrIO
    /\ pc' = "done"
    /\ UNCHANGED <<fanvars, arcvars, net, reqs, hsrc, hauth, removed, procs, rvars,
                   fsvars, instvars, cmd, calls, stopvars, updvars, warned,
                   log, link0, run0, prev>>

InitFetch ==
    /\ IdleResolver
    /\ versions = {}
    /\ link = NoLinks
    /\ NoInstances
    /\ tfs = [t \in Leaves |-> EmptyDir]
    /\ IdleCommand

\* OpenArchive(ct, options...) with neither a source nor local set
BeginOpen ==
    /\ pc = "idle"
    /\ \E n \in NetOptions, c \in {"none", "file"}, v \in {Latest, VA} :
          /\ cmd' = [op |-> "open", ct |-> "gateway", base |-> "active_prod",
                     force |-> FALSE, restart |-> FALSE, version |-> v]
          /\ net' = n
          /\ cache' = c
    /\ pc' = "c_get"
    /\ calls' = 1
    /\ UNCHANGED <<fanvars, arcvars, reqs, hsrc, hauth, obody, removed, procs, rvars,
                   fsvars, instvars, stopvars, updvars, result, warned,
                   histvars>>

NextFetch ==
    \/ BeginOpen
    \/ CheckGet
    \/ CheckRetry
    \/ CheckAuth
    \/ CheckRepost
    \/ CheckStatus
    \/ OpenCache
    \/ OpenSave

SpecFetch == InitFetch /\ [][NextFetch]_vars

\* ------------------------------------------------------------------------
\* deleteCmd: `delete`, deleteInstance for each matching instance
\* ------------------------------------------------------------------------

ErrProtected == [kind |-> "Protected", name |-> NoName]
ErrNotDeleted == [kind |-> "NotDeleted", name |-> NoName]

\* instance.IsProtected(c)
IsProtected(i) == conf[i].protected = "true"

\* instance.IsRunning(c)
IsRunning(i) == running[i]

\* !instance.IsRunning(c) || deleteCmdForce
Removes(i, force) == ~IsRunning(i) \/ force

\* deleteInstance returns err for instance i: ForAll goes on
DeleteReturns(i, err, lg) ==
    /\ log' = Append(lg, Event("delete", i, err.kind))
    /\ result' = IF err # Nil THEN err ELSE result
    /\ pc' = "d_loop"

\* instance.ForAll: deleteInstance for the next instance of the component
DeleteLoop ==
    /\ pc = "d_loop"
    /\ IF todo = <<>>
       THEN pc' = "done" /\ UNCHANGED <<todo, cur>>
       ELSE /\ cur' = Head(todo)
            /\ todo' = Tail(todo)
            /\ pc' = "d_protected"
    /\ UNCHANGED <<xvars, rvars, fsvars, instvars, cmd, calls, tries, deferred,
                   updvars, result, warned, histvars>>

\* the test of protection, then Stop(c, true, false) when --stop is given
DeleteProtected ==
    /\ pc = "d_protected"
    /\ IF IsProtected(cur)
       THEN DeleteReturns(cur, ErrProtected, log)
       ELSE /\ pc' = IF cmd.stop THEN StopEntry(TRUE) ELSE "d_remove"
            /\ UNCHANGED <<log, result>>
    /\ UNCHANGED <<xvars, rvars, fsvars, instvars, cmd, calls, stopvars,
                   updvars, warned, faulted, link0, run0, prev>>

\* the test of the process, then RemoveAll(c.Home())
DeleteRemove ==
    /\ pc = "d_remove"
    /\ IF Removes(cur, cmd.force)
       THEN \E fault \in BOOLEAN :
               /\ faulted' = (faulted \/ fault)
               /\ IF fault
                  THEN DeleteReturns(cur, ErrIO, log) /\ UNCHANGED removed
                  ELSE /\ removed' = removed \cup {cur}
                       /\ DeleteReturns(cur, Nil,
                             Append(log, Event("removed", cur,
                                        IF running[cur] THEN "alive" ELSE "gone")))
       ELSE /\ DeleteReturns(cur, ErrNotDeleted, log)
            /\ UNCHANGED <<removed, faulted>>
    /\ UNCHANGED <<fanvars, arcvars, netvars, procs, rvars, fsvars, instvars, cmd,
                   calls, stopvars, updvars, warned, link0, run0, prev>>

InitDelete ==
    /\ IdleResolver
    /\ versions = {VA}
    /\ link = [b \in Basenames |-> IF b = "active_prod" THEN VA ELSE NoName]
    /\ conf \in [Instances -> Configs]
    /\ running \in [Instances -> BOOLEAN]
    /\ pending = [i \in Instances |-> "none"]
    /\ tfs = [t \in Leaves |-> EmptyDir]
    /\ IdleCommand

\* `delete [--stop] [--force] TYPE`
BeginDelete ==
    /\ pc = "idle"
    /\ \E ct \in Components, f \in BOOLEAN, s \in BOOLEAN :
          /\ cmd' = [op |-> "delete", ct |-> ct, base |-> "active_prod",
                     force |-> f, restart |-> FALSE, version |-> Latest,
                     stop |-> s]
          /\ todo' = SelectSeq(InstanceOrder, LAMBDA i : conf[i].ctype = ct)
    /\ pc' = "d_loop"
    /\ calls' = 1
    /\ UNCHANGED <<xvars, rvars, fsvars, instvars, cur, tries, deferred,
                   updvars, result, warned, histvars>>

NextDelete ==
    \/ BeginDelete
    \/ DeleteLoop
    \/ DeleteProtected
    \/ StopKill
    \/ StopKilled
    \/ \E i \in Instances : ProcessExit(i)
    \/ DeleteRemove

SpecDelete == InitDelete /\ [][NextDelete]_vars

\* ------------------------------------------------------------------------
\* installCmd.RunE: the `package install` command
\* ------------------------------------------------------------------------

ErrFlags == [kind |-> "Flags", name |-> NoName]

\* instance.Instances(h, ct, FilterParameters("protected=true",
\* "version=" + installCmdBase))
ProtectedOnBase(ct, base) ==
    SelectSeq(InstanceOrder,
              LAMBDA i : /\ conf[i].ctype = ct
                         /\ conf[i].protected = "true"
                         /\ conf[i].version = base)

\* InstallGuardAborts mutated: the protected instances are not looked at
InstallGuardNever(cs, update, force) == FALSE

\* len(cs) > 0 && installCmdUpdate && !installCmdForce
InstallGuardAborts(cs, update, force) == cs # <<>> /\ update /\ ~force

\* --download with --update or another base is refused; --force sets
\* --update
InstallFlags ==
    /\ pc = "i_flags"
    /\ IF cmd.download /\ (cmd.base # "active_prod" \/ cmd.update)
       THEN result' = ErrFlags /\ pc' = "done" /\ UNCHANGED cmd
       ELSE /\ cmd' = [cmd EXCEPT !.update = cmd.update \/ cmd.force]
            /\ pc' = IF cmd.download THEN "i_install" ELSE "i_guard"
            /\ UNCHANGED result
    /\ UNCHANGED <<xvars, rvars, fsvars, instvars, calls, stopvars, updvars,
                   warned, histvars>>

\* the protected instances on the base link, then the instances to restart
InstallGuard ==
    /\ pc = "i_guard"
    /\ IF InstallGuardAborts(ProtectedOnBase(cmd.ct, cmd.base), cmd.update,
                             cmd.force)
       THEN /\ warned' = TRUE
            /\ result' = Nil
            /\ pc' = "done"
            /\ UNCHANGED todo
       ELSE /\ todo' = IF cmd.update
                       THEN MatchKeyValue(cmd.ct, "version", cmd.base)
                       ELSE <<>>
            /\ pc' = "i_install"
            /\ UNCHANGED <<warned, result>>
    /\ UNCHANGED <<xvars, rvars, fsvars, instvars, cmd, calls, cur, tries,
                   deferred, updvars, histvars>>

\* install(): ct.MakeDirs(h) and geneos.Install, which opens the archive
\* and hands it to Unarchive
InstallOpen ==
    /\ pc = "i_install"
    /\ \E fault \in BOOLEAN :
          /\ faulted' = (faulted \/ fault)
          /\ IF fault
             THEN /\ log' = Append(log, Event("makedirs", NoInstance, "failed"))
                  /\ result' = ErrIO
                  /\ pc' = "done"
                  /\ UNCHANGED arc
             ELSE /\ log' = Append(Append(log,
                                Event("makedirs", NoInstance, "made")),
                                Event("open", NoInstance, "opened"))
                  /\ arc' = Archive(FileName(cmd.ct, VB), NoOverride,
                                    <<Entry(<<cmd.ct, "x">>, "reg", <<>>)>>)
                  /\ pc' = IF cmd.download THEN "done" ELSE "x_parse"
                  /\ UNCHANGED result
    /\ UNCHANGED <<yvars, fanvars, apos, xct, xver, tree, escaped, made, rvars,
                   fsvars, instvars, cmd, calls, stopvars, updvars, warned,
                   link0, run0, prev>>

\* a host with version 9.9 installed and linked
InitInstall ==
    /\ IdleResolver
    /\ versions = {VA}
    /\ link = [b \in Basenames |-> IF b = "active_prod" THEN VA ELSE NoName]
    /\ conf \in {cf \in [Instances -> Configs] :
                    \A i \in Instances : cf[i].permitted}
    /\ running \in [Instances -> BOOLEAN]
    /\ pending = [i \in Instances |-> "none"]
    /\ tfs = [t \in Leaves |-> EmptyDir]
    /\ IdleCommand

BeginInstall ==
    /\ pc = "idle"
    /\ \E b \in Basenames, f \in BOOLEAN, u \in BOOLEAN, d \in BOOLEAN :
          cmd' = [op |-> "install", ct |-> "gateway", base |-> b,
                  force |-> f, restart |-> FALSE, version |-> Latest,
                  update |-> u, download |-> d]
    /\ pc' = "i_flags"
    /\ calls' = 1
    /\ UNCHANGED <<xvars, rvars, fsvars, instvars, stopvars, updvars, result,
                   warned, histvars>>

NextInstall ==
    \/ BeginInstall
    \/ InstallFlags
    \/ InstallGuard
    \/ InstallOpen
    \/ UnarchiveParse
    \/ UnarchiveStat
    \/ UnarchiveOpen
    \/ UnarchiveExtract
    \/ RunLoop
    \/ StopTerm
    \/ StopRetry
    \/ StopPoll
    \/ StopKill
    \/ StopKilled
    \/ \E i \in Instances : ProcessExit(i)
    \/ UpdateResolve
    \/ UpdateReadlink
    \/ UpdateStat
    \/ UpdateRemove
    \/ UpdateSymlink
    \/ RunDefer

SpecInstall == InitInstall /\ [][NextInstall]_vars

\* ------------------------------------------------------------------------
\* Two calls at once: Update() and Unarchive() run by two commands on the
\* same host, component and base name; every call of the filesystem is one
\* step, and the steps of the two calls interleave freely
\* ------------------------------------------------------------------------

\* the error of h.Symlink when the link is there already
ErrExist == [kind |-> "Exist", name |-> NoName]

\* the call p goes on with the record r
Goes(p, r) == procs' = [procs EXCEPT ![p] = r]

\* the call p returns err
Returns(p, r, err) == Goes(p, [r EXCEPT !.pc = "done", !.err = err])

\* Unarchive: component and version from the file name or from the override
ProcParse(p) ==
    LET me == procs[p]
    IN  /\ me.pc = "x_parse"
        /\ IF ~arc.override.given
           THEN IF ~arc.file.matches
                THEN Returns(p, me, ErrInvalidArgs)
                ELSE IF cmd.ct \in {"none", "san"}
                     THEN Goes(p, [me EXCEPT !.xver = arc.file.version,
                                             !.ct = arc.file.ct,
                                             !.pc = "x_stat"])
                     ELSE IF cmd.ct = arc.file.ct
                          THEN Goes(p, [me EXCEPT !.xver = arc.file.version,
                                                  !.ct = cmd.ct,
                                                  !.pc = "x_stat"])
                          ELSE Returns(p, [me EXCEPT !.xver = arc.file.version,
                                                     !.ct = cmd.ct], Nil)
           ELSE IF ~arc.override.valid
                THEN Returns(p, me, ErrInvalidArgs)
                ELSE Goes(p, [me EXCEPT !.xver = arc.override.version,
                                        !.ct = arc.override.ct,
                                        !.pc = "x_stat"])
        /\ UNCHANGED <<fanvars, arcvars, netvars, removed, rvars, fsvars,
                       instvars, cmd, pc, calls, stopvars, updvars, result,
                       warned, histvars>>

\* Unarchive: h.Stat(basedir)
ProcStatDir(p) ==
    LET me == procs[p]
    IN  /\ me.pc = "x_stat"
        /\ IF AlreadyInstalled(versions, me.xver)
           THEN Returns(p, me, Nil)
           ELSE Goes(p, [me EXCEPT !.pc = "x_mkdir"])
        /\ UNCHANGED <<fanvars, arcvars, netvars, removed, rvars, fsvars,
                       instvars, cmd, pc, calls, stopvars, updvars, result,
                       warned, histvars>>

\* Unarchive: h.MkdirAll(basedir, 0775), no error for a directory that is
\* there
ProcMkdir(p) ==
    LET me == procs[p]
    IN  /\ me.pc = "x_mkdir"
        /\ \E fault \in BOOLEAN :
              /\ faulted' = (faulted \/ fault)
              /\ IF fault
                 THEN Returns(p, me, ErrIO) /\ UNCHANGED versions
                 ELSE /\ versions' = versions \cup {me.xver}
                      /\ Goes(p, [me EXCEPT !.made = TRUE, !.pc = "x_open"])
        /\ UNCHANGED <<fanvars, arcvars, netvars, removed, rvars, link,
                       instvars, cmd, pc, calls, stopvars, updvars, result,
                       warned, log, link0, run0, prev>>

\* Unarchive: gzip.NewReader(gz)
ProcOpen(p) ==
    LET me == procs[p]
    IN  /\ me.pc = "x_open"
        /\ \E fault \in BOOLEAN :
              /\ faulted' = (faulted \/ fault)
              /\ IF fault
                 THEN Returns(p, me, ErrIO)
                 ELSE Goes(p, [me EXCEPT !.pc = "x_extract"])
        /\ UNCHANGED <<fanvars, arcvars, netvars, removed, rvars, fsvars,
                       instvars, cmd, pc, calls, stopvars, updvars, result,
                       warned, log, link0, run0, prev>>

\* Unarchive: one round of the loop over the entries; after the last entry
\* Update is called with Version(version)
ProcExtract(p) ==
    LET me == procs[p]
    IN  /\ me.pc = "x_extract"
        /\ IF me.apos = Len(arc.entries)
           THEN /\ Goes(p, [me EXCEPT !.version = me.xver, !.pc = "u_resolve"])
                /\ UNCHANGED <<versions, tree, escaped, faulted>>
           ELSE \E fault \in BOOLEAN :
                LET r == ExtractEntry(tree, versions, escaped, me.xver, me.ct,
                                      arc.entries[me.apos + 1], me.apos + 1)
                IN  /\ faulted' = (faulted \/ fault)
                    /\ IF fault \/ r.next = "error"
                       THEN /\ Returns(p, me, ErrIO)
                            /\ UNCHANGED <<versions, tree, escaped>>
                       ELSE /\ tree' = r.tree
                            /\ versions' = r.versions
                            /\ escaped' = r.escaped
                            /\ Goes(p, [me EXCEPT
                                          !.apos = me.apos + 1,
                                          !.pc = IF r.next = "fatal"
                                                 THEN "fatal"
                                                 ELSE "x_extract"])
        /\ UNCHANGED <<fanvars, arc, apos, xct, xver, made, netvars, removed,
                       rvars, link, instvars, cmd, pc, calls, stopvars,
                       updvars, result, warned, log, link0, run0, prev>>

\* Update: LatestVersion(h, ct, opts.version)
ProcResolve(p) ==
    LET me       == procs[p]
        original == OriginalVersion(me.version)
    IN  /\ me.pc = "u_resolve"
        /\ \E fault \in BOOLEAN :
           \E r \in IF fault THEN {NoName}
                    ELSE LatestVersion(versions, link, VersionFilter(original)) :
              /\ faulted' = (faulted \/ fault)
              /\ IF r = NoName
                 THEN Returns(p, [me EXCEPT !.ver = r],
                              ErrUnresolved(original, r))
                 ELSE Goes(p, [me EXCEPT !.ver = r, !.pc = "u_readlink"])
        /\ UNCHANGED <<fanvars, arcvars, netvars, removed, rvars, fsvars,
                       instvars, cmd, pc, calls, stopvars, updvars, result,
                       warned, log, link0, run0, prev>>

\* Update: h.Readlink(basepath)
ProcReadlink(p) ==
    LET me == procs[p]
    IN  /\ me.pc = "u_readlink"
        /\ \E fault \in IF link[OptBasename] = NoName THEN {FALSE} ELSE BOOLEAN :
              /\ faulted' = (faulted \/ fault)
              /\ Goes(p, [me EXCEPT
                            !.existing = IF fault THEN NoName
                                         ELSE link[OptBasename],
                            !.pc = "u_stat"])
        /\ UNCHANGED <<fanvars, arcvars, netvars, removed, rvars, fsvars,
                       instvars, cmd, pc, calls, stopvars, updvars, result,
                       warned, log, link0, run0, prev>>

\* Update: h.Stat of the version directory, then the test of the link read
ProcStat(p) ==
    LET me == procs[p]
    IN  /\ me.pc = "u_stat"
        /\ \E fault \in BOOLEAN :
              /\ faulted' = (faulted \/ fault)
              /\ IF fault \/ me.ver \notin versions
                 THEN Returns(p, me,
                         ErrNoDirectory(OriginalVersion(me.version), me.ver))
                 ELSE IF KeepsLink(me.existing, me.ver, cmd.force)
                      THEN Returns(p, me, Nil)
                      ELSE Goes(p, [me EXCEPT !.pc = "u_remove"])
        /\ UNCHANGED <<fanvars, arcvars, netvars, removed, rvars, fsvars,
                       instvars, cmd, pc, calls, stopvars, updvars, result,
                       warned, log, link0, run0, prev>>

\* Update: h.Remove(basepath); the link may be gone by now
ProcRemove(p) ==
    LET me == procs[p]
    IN  /\ me.pc = "u_remove"
        /\ IF link[OptBasename] = NoName
           THEN /\ IF RemoveFails(ErrNotExist(BaseEntry(OptBasename)))
                   THEN Returns(p, me, ErrNotExist(BaseEntry(OptBasename)))
                   ELSE Goes(p, [me EXCEPT !.pc = "u_symlink"])
                /\ UNCHANGED <<link, faulted>>
           ELSE \E fault \in BOOLEAN :
                   /\ faulted' = (faulted \/ fault)
                   /\ IF fault
                      THEN /\ UNCHANGED link
                           /\ IF RemoveFails(ErrIO)
                              THEN Returns(p, me, ErrIO)
                              ELSE Goes(p, [me EXCEPT !.pc = "u_symlink"])
                      ELSE /\ link' = [link EXCEPT
                                         ![OptBasename] =
                                             AfterRemove(link[OptBasename])]
                           /\ Goes(p, [me EXCEPT !.pc = "u_symlink"])
        /\ UNCHANGED <<fanvars, arcvars, netvars, removed, rvars, versions,
                       instvars, cmd, pc, calls, stopvars, updvars, result,
                       warned, log, link0, run0, prev>>

\* Update: h.Symlink(opts.version, basepath); the link may be back by now
ProcSymlink(p) ==
    LET me == procs[p]
    IN  /\ me.pc = "u_symlink"
        /\ \E fault \in BOOLEAN :
              /\ faulted' = (faulted \/ fault)
              /\ IF fault
                 THEN Returns(p, me, ErrIO) /\ UNCHANGED link
                 ELSE IF link[OptBasename] # NoName
                      THEN Returns(p, me, ErrExist) /\ UNCHANGED link
                      ELSE /\ link' = [link EXCEPT
                                         ![OptBasename] =
                                             LinkTarget(me.ver,
                                                OriginalVersion(me.version))]
                           /\ Returns(p, me, Nil)
        /\ UNCHANGED <<fanvars, arcvars, netvars, removed, rvars, versions,
                       instvars, cmd, pc, calls, stopvars, updvars, result,
                       warned, log, link0, run0, prev>>

\* a third version, which no request of the two calls names
VOther == VMissing

\* the archives the two calls of Unarchive are given: files and directories
RaceEntries ==
    {<<>>,
     <<Entry(<<"gateway", "x">>, "reg", <<>>)>>,
     <<Entry(<<"d">>, "dir", <<>>), Entry(<<"d", "y">>, "reg", <<>>)>>}

InitRace ==
    /\ IdleResolver
    /\ versions \in SUBSET {VA, VB, VOther}
    /\ link \in {l \in [Basenames -> versions \cup {NoName}] :
                    l["active_dev"] = NoName}
    /\ NoInstances
    /\ tfs = [t \in Leaves |-> EmptyDir]
    /\ IdleCommand

\* two calls of Update, each with its version, or two calls of Unarchive
\* with the same archive
BeginRace ==
    /\ pc = "idle"
    /\ \E f \in BOOLEAN :
          cmd' = [op |-> "race", ct |-> "gateway", base |-> "active_prod",
                  force |-> f, restart |-> FALSE, version |-> NoName]
    /\ \/ /\ \E r \in [Procs -> {VA, VB}] :
                procs' = [p \in Procs |->
                            [NoProc EXCEPT !.op = "activate",
                                           !.version = r[p],
                                           !.ct = "gateway",
                                           !.pc = "u_resolve"]]
          /\ UNCHANGED arc
       \/ /\ \E v \in {VA, VB}, es \in RaceEntries :
                arc' = Archive(FileName("gateway", v), NoOverride, es)
          /\ procs' = [p \in Procs |->
                         [NoProc EXCEPT !.op = "unpack", !.pc = "x_parse"]]
    /\ pc' = "race"
    /\ calls' = 1
    /\ UNCHANGED <<fanvars, apos, xct, xver, tree, escaped, made, netvars,
                   removed, rvars, fsvars, instvars, stopvars, updvars,
                   result, warned, histvars>>

NextRace ==
    \/ BeginRace
    \/ \E p \in Procs : ProcParse(p)
    \/ \E p \in Procs : ProcStatDir(p)
    \/ \E p \in Procs : ProcMkdir(p)
    \/ \E p \in Procs : ProcOpen(p)
    \/ \E p \in Procs : ProcExtract(p)
    \/ \E p \in Procs : ProcResolve(p)
    \/ \E p \in Procs : ProcReadlink(p)
    \/ \E p \in Procs : ProcStat(p)
    \/ \E p \in Procs : ProcRemove(p)
    \/ \E p \in Procs : ProcSymlink(p)

SpecRace == InitRace /\ [][NextRace]_vars

\* ------------------------------------------------------------------------
\* Properties
\* ------------------------------------------------------------------------

\* positions in the log of this run
SignalsTo(i) ==
    {k \in DOMAIN log : log[k].ev \in {"SIGTERM", "SIGKILL"} /\ log[k].inst = i}
StartsOf(i) == {k \in DOMAIN log : log[k].ev = "start" /\ log[k].inst = i}
LinkWrites == {k \in DOMAIN log : log[k].ev \in {"remove", "symlink"}}
LinkCreated == {k \in DOMAIN log : log[k].ev = "symlink" /\ log[k].arg = "created"}
StatFailed == \E k \in DOMAIN log : log[k].ev = "stat"

\* the instances that use the base link the command changes
BoundInstances ==
    {i \in Instances : conf[i].ctype = cmd.ct /\ conf[i].version = cmd.base}

\* C1: `package update` without --force, with a protected instance bound to
\* the base link being changed: in every state of the run the base links and
\* the version directories are as they were, no instance has been signalled
\* or started, and the command returns nil after printing the warning.
C1_ProtectionGuard ==
    (/\ cmd.op = "update"
     /\ ~cmd.force
     /\ \E i \in BoundInstances : conf[i].protected = "true")
    => /\ link = link0
       /\ versions = {VA, VB}
       /\ log = <<>>
       /\ running = run0
       /\ deferred = <<>>
       /\ pc = "done" => (result = Nil /\ warned)

C1_Witness ==
    /\ pc = "done"
    /\ cmd.op = "update" /\ ~cmd.force /\ cmd.restart /\ cmd.version = Latest
    /\ link0[cmd.base] = VA
    /\ warned
    /\ \E i \in BoundInstances : conf[i].protected = "true" /\ running[i]

\* the case of C2: versions VA < VB, the base link at VA, one instance bound
\* to it, running and unprotected, no protected instance of the component,
\* `package update` of the latest version with restart and without force
C2_Case(i) ==
    /\ cmd.op = "update"
    /\ cmd.version = Latest /\ cmd.restart /\ ~cmd.force
    /\ versions = {VA, VB}
    /\ link0[cmd.base] = VA
    /\ BoundInstances = {i}
    /\ run0[i]
    /\ \A j \in Instances : conf[j].ctype = cmd.ct => conf[j].protected = "false"

\* C2: in that case every signal to the instance comes before the removal
\* and creation of the link, every Start of it comes after the link was
\* created, and when no filesystem call fails the command returns nil with
\* the instance signalled, the link at VB and the instance started once.
C2_RolloutOrder ==
    \A i \in Instances :
        C2_Case(i) =>
            /\ \A k \in SignalsTo(i), m \in LinkWrites : k < m
            /\ \A k \in StartsOf(i) :
                  /\ \A m \in LinkWrites \cup SignalsTo(i) : m < k
                  /\ ~faulted => LinkCreated # {}
            /\ (pc = "done" /\ ~faulted) =>
                  /\ result = Nil
                  /\ link[cmd.base] = VB
                  /\ SignalsTo(i) # {}
                  /\ Cardinality(StartsOf(i)) = 1

C2_Witness ==
    \E i \in Instances :
        /\ C2_Case(i)
        /\ pc = "done" /\ ~faulted /\ result = Nil
        /\ link[cmd.base] = VB
        /\ \E k \in StartsOf(i) : log[k].arg = "started"
        /\ running[i]

\* C3: as claimed: an instance is started by the rollout only if it was
\* running before the rollout and Stop left it stopped.
C3_RestartSetAsClaimed ==
    \A k \in DOMAIN log :
        log[k].ev = "start" =>
            /\ run0[log[k].inst]
            /\ \E j \in 1..(k - 1) :
                  log[j] = Event("stopped", log[k].inst, "gone")

\* C4: Update on a link that exists and targets another version than the
\* resolved, installed one returns nil; without force the link is as it was,
\* with force it targets the resolved version (no filesystem call failing).
C4_GuardedOverwrite ==
    (/\ pc = "done"
     /\ cmd.op = "activate"
     /\ ~faulted
     /\ link0[cmd.base] # NoName
     /\ uver # NoName
     /\ uver \in versions
     /\ uver # link0[cmd.base])
    => /\ result = Nil
       /\ link[cmd.base] = IF cmd.force THEN uver ELSE link0[cmd.base]

C4_Witness ==
    /\ pc = "done" /\ cmd.op = "activate" /\ ~faulted
    /\ cmd.force
    /\ link0[cmd.base] = VA
    /\ uver = VB
    /\ link[cmd.base] = VB
    /\ result = Nil

\* C5: Update on a link that already targets the resolved version removes
\* and creates nothing and returns nil, with or without force; and a second
\* run of the same call after one that returned nil changes nothing
\* (no filesystem call failing).
C5_Idempotent ==
    (pc = "done" /\ cmd.op = "activate" /\ ~faulted) =>
        /\ (uver # NoName /\ link0[cmd.base] = uver) =>
              (result = Nil /\ LinkWrites = {} /\ link = link0)
        /\ (calls >= 2 /\ prev = Nil) =>
              (result = Nil /\ LinkWrites = {} /\ link = link0)

C5_Witness ==
    /\ pc = "done" /\ cmd.op = "activate" /\ ~faulted
    /\ calls = 2 /\ prev = Nil
    /\ cmd.force
    /\ link0[cmd.base] = VB /\ uver = VB
    /\ VA \in versions
    /\ result = Nil

\* C6: when Update, or Unarchive which ends in it, has returned nil, every
\* base link that exists targets a version directory that exists.
C6_NoDanglingLink ==
    (pc = "done" /\ cmd.op \in {"activate", "unarchive"} /\ result = Nil) =>
        \A b \in Basenames : link[b] # NoName => link[b] \in versions

C6_Witness ==
    /\ pc = "done" /\ cmd.op = "activate" /\ result = Nil
    /\ cmd.version = VPartial
    /\ link0[cmd.base] = VA
    /\ link[cmd.base] = VB

\* C7: between the removal of the old link and the creation of the new one
\* there is no base link; when the creation fails, or the process is killed
\* at that point, the link stays absent.
C7_NonAtomicSwap ==
    /\ pc = "u_symlink" => link[cmd.base] = NoName
    /\ (/\ pc = "done"
        /\ log # <<>>
        /\ log[Len(log)] = Event("symlink", NoInstance, "failed"))
       => (link[cmd.base] = NoName /\ uerr = ErrIO)
    /\ (/\ pc = "crashed"
        /\ log # <<>>
        /\ log[Len(log)].ev = "remove"
        /\ log[Len(log)].arg # "failed")
       => link[cmd.base] = NoName

C7_Witness ==
    /\ pc = "done" /\ cmd.op = "activate"
    /\ link0[cmd.base] = VA
    /\ uver = VB
    /\ log = <<Event("remove", NoInstance, "removed"),
               Event("symlink", NoInstance, "failed")>>
    /\ link[cmd.base] = NoName
    /\ result = ErrIO

\* the name with its leading letters removed
RECURSIVE WithoutAlphaPrefix(_)
WithoutAlphaPrefix(n) ==
    IF n # <<>> /\ IsLetter(Head(n)) THEN WithoutAlphaPrefix(Tail(n)) ELSE n

\* major, minor and patch of a name that parses
Triple(n) ==
    LET s == Segments(WithoutAlphaPrefix(n)) IN <<s[1], s[2], s[3]>>

TripleLeq(a, b) ==
    \/ a[1] < b[1]
    \/ a[1] = b[1] /\ a[2] < b[2]
    \/ a[1] = b[1] /\ a[2] = b[2] /\ a[3] <= b[3]

Parseable(S) == {c \in S : ValidVersion(WithoutAlphaPrefix(c))}

\* C8: for latest, the resolver returns one of the candidate names; its
\* version is the greatest, by major.minor.patch, of the candidates that
\* parse; it returns "" only when none parses.
C8_LatestIsMaximum ==
    (rpc = "done" /\ rfilter = <<>>) =>
        IF Parseable(rdirs) = {}
        THEN rout = NoName
        ELSE /\ rout \in Parseable(rdirs)
             /\ \A c \in Parseable(rdirs) : TripleLeq(Triple(c), Triple(rout))

C8_Witness ==
    /\ rpc = "done" /\ rfilter = <<>>
    /\ rout = <<"G", "A", "1", "0", ".", "9">>
    /\ rdirs = {rout, <<"n", "o", "t", "a", "v", "e", "r", "s", "i", "o", "n">>}

\* C9: as claimed: an explicit request resolves only to a candidate whose
\* stripped name equals the request.
C9_ExactMatchAsClaimed ==
    (rpc = "done" /\ rfilter # <<>> /\ rout # NoName) =>
        WithoutAlphaPrefix(rout) = rfilter

\* the request is found in the name: some part of the name equals it, a dot
\* of the request standing for any character
Contains(name, request) ==
    \E off \in 0..(Len(name) - Len(request)) :
        \A i \in 1..Len(request) :
            request[i] = "." \/ request[i] = name[off + i]

\* C9, amended: an explicit request resolves to the candidate with the
\* greatest version among the candidates that parse and whose name contains
\* the request, and to "" only when there is none.
C9_RequestIsFilter ==
    (rpc = "done" /\ rfilter # <<>>) =>
        LET M == {c \in Parseable(rdirs) : Contains(c, rfilter)}
        IN  IF M = {}
            THEN rout = NoName
            ELSE /\ rout \in M
                 /\ \A c \in M : TripleLeq(Triple(c), Triple(rout))

C9_Witness ==
    /\ rpc = "done"
    /\ rfilter = <<"9", ".", "1">>
    /\ rdirs = {<<"9", ".", "1", "0", ".", "9">>, <<"9", ".", "1", "0", ".", "1", "0">>}
    /\ rout = <<"9", ".", "1", "0", ".", "1", "0">>

\* C10: when no installed version resolves, or the resolved version cannot
\* be found by Stat, Update returns a not-exist error, which names the
\* version as requested when none resolved, and has called neither Remove
\* nor Symlink: the base links are as they were.
C10_NotExistOutcome ==
    (pc = "done" /\ cmd.op = "activate" /\ (uver = NoName \/ StatFailed)) =>
        /\ result.kind = "NotExist"
        /\ uver = NoName =>
              result.name = IF cmd.version = NoName THEN Latest ELSE cmd.version
        /\ LinkWrites = {}
        /\ link = link0

C10_Witness ==
    /\ pc = "done" /\ cmd.op = "activate" /\ ~faulted
    /\ cmd.version = VMissing /\ cmd.force
    /\ uver = NoName
    /\ link0[cmd.base] = VA /\ link[cmd.base] = VA
    /\ result = ErrNotExist(VMissing)

\* positions in the log of the graceful and of the forceful signals
TermsTo(i) == {k \in DOMAIN log : log[k].ev = "SIGTERM" /\ log[k].inst = i}
KillsTo(i) == {k \in DOMAIN log : log[k].ev = "SIGKILL" /\ log[k].inst = i}

InStop == pc \in {"s_term", "s_retry", "s_poll", "s_kill", "s_killed"}

\* C12: Stop sends at most 11 graceful signals and at most one kill; without
\* force the kill comes only after 11 graceful signals none of which found
\* the process gone, and no signal follows it; after the kill Stop polls
\* once and returns; and every Stop that has begun returns.
C12_StopBounded ==
    /\ [](\A i \in Instances :
            /\ Cardinality(TermsTo(i)) <= 11
            /\ Cardinality(KillsTo(i)) <= 1
            /\ \A k \in KillsTo(i) :
                  /\ \A j \in SignalsTo(i) : j <= k
                  /\ ~cmd.force =>
                        /\ Cardinality(TermsTo(i)) = 11
                        /\ \A j \in TermsTo(i) : log[j].arg = "nil")
    /\ [][(pc = "s_killed" /\ pc' # pc) => pc' = "r_loop"]_vars
    /\ (InStop ~> ~InStop)

C12_Witness ==
    \E i \in Instances :
        /\ pc = "done" /\ ~cmd.force
        /\ Cardinality(TermsTo(i)) = 11
        /\ Cardinality(KillsTo(i)) = 1
        /\ ~running[i]

\* C13: as stated: a Stop that returns with the process still there returns
\* an error, unless its first signal was refused or found the process gone.
C13_SurvivorReported ==
    \A k \in DOMAIN log :
        (log[k].ev = "return" /\ log[k].arg = "nil") =>
            \/ log[k - 1] = Event("stopped", log[k].inst, "gone")
            \/ /\ Cardinality(SignalsTo(log[k].inst)) = 1
               /\ \E j \in TermsTo(log[k].inst) :
                     log[j].arg \in {"ProcessDone", "EPERM"}

\* C14: as stated: when a deferred Start has failed, every deferred Start
\* was still run and the command returns the failure to its caller.
C14_StartFailureReported ==
    (pc = "done" /\ \E k \in DOMAIN log : log[k].ev = "start" /\ log[k].arg = "failed")
        => /\ deferred = <<>>
           /\ result # Nil

\* the calls that returned to the loop with that number
CallsOf(l) == {k \in DOMAIN flog : flog[k].loop = l}

\* C11: as stated: after a call that returned an error other than not-exist
\* the loop makes no further call, and the first call returns that error.
C11_AbortsOnHardError ==
    /\ \A k \in DOMAIN flog :
          flog[k].err \notin {"nil", "NotExist"} =>
              \A j \in CallsOf(flog[k].loop) : j <= k
    /\ (pc = "done" /\ cmd.op = "fanout") =>
          \A k \in CallsOf(1) :
              flog[k].err \notin {"nil", "NotExist"} => result.kind = flog[k].err

\* C11, amended: when the first call has returned, every loop has called
\* Update for each of its targets, whatever the earlier calls returned; an
\* error other than not-exist was logged; the loops over components and
\* over related components return nil and the loop over hosts returns what
\* the call for its last host returned.
C11_BestEffort ==
    /\ \A k \in DOMAIN flog :
          flog[k].logged <=> flog[k].err \notin {"nil", "NotExist"}
    /\ (pc = "done" /\ cmd.op = "fanout") =>
          /\ \A k \in DOMAIN flog :
                Cardinality(CallsOf(flog[k].loop)) = flog[k].n
          /\ \A k \in CallsOf(1) :
                result.kind = IF flog[k].kind = "hosts"
                              THEN flog[CHOOSE m \in CallsOf(1) :
                                          \A j \in CallsOf(1) : j <= m].err
                              ELSE "nil"

C11_Witness ==
    /\ pc = "done" /\ cmd.op = "fanout"
    /\ result = Nil
    /\ \E k \in DOMAIN flog, j \in DOMAIN flog :
          /\ k < j
          /\ flog[k].loop = flog[j].loop
          /\ flog[k].kind = "related"
          /\ flog[k].err = "IO"
          /\ flog[j].err = "nil"
    /\ \E k \in DOMAIN flog : flog[k].err = "NotExist"

\* the version directories whose content may not change in this step: every
\* one but the directory the call has made itself
Kept == {d \in versions : d # xver' \/ ~made'}

\* what a version directory holds
Contents(tr, d) == {i \in tr : i.dir = d}

\* C15: as stated: a call that finds its version directory leaves that
\* directory and the link as they are and reads no entry, and no step of
\* any call changes the content of a version directory that the call did
\* not make.
C15_AppendOnly ==
    /\ [][(pc = "x_stat" /\ xver \in versions) =>
             /\ pc' = "done"
             /\ apos' = 0
             /\ link' = link
             /\ tree' = tree]_vars
    /\ [][cmd.op = "unarchive" =>
             \A d \in Kept : Contents(tree', d) = Contents(tree, d)]_vars

\* C16: as stated: a call that finds its version directory returns the
\* already-exists error, which a call that installed the version does not.
C16_AlreadyExistsReported ==
    [][(pc = "x_stat" /\ xver \in versions) => result'.kind = "Exist"]_vars

\* C17: as stated: without an override, a file name of another component
\* than the one asked for, which is not the placeholder, is answered with
\* the invalid-arguments error, and nothing is made.
C17_MismatchIsError ==
    [][(/\ pc = "x_parse"
        /\ ~arc.override.given
        /\ arc.file.matches
        /\ cmd.ct \notin {"none", "san"}
        /\ cmd.ct # arc.file.ct) =>
            /\ result' = ErrInvalidArgs
            /\ versions' = versions
            /\ link' = link]_vars

\* C18: as stated: nothing is made outside the version directory of the
\* call from an entry whose name is absolute or has a parent-directory
\* component.
C18_NoTarSlip ==
    /\ \A e \in escaped : ~e.unsafe
    /\ \A i \in tree :
          (i.from > 0 /\ i.from <= Len(arc.entries) /\ Unsafe(arc.entries[i.from].name))
              => i.dir = xver

\* the entry is a link with an absolute target and reaches the switch on
\* its type
AbsLinkAt(k) ==
    LET e == arc.entries[k]
        name == fnname(xct, e.name)
    IN  /\ e.type = "symlink"
        /\ IsAbs(e.linkname)
        /\ ~EmptyName(name)
        /\ CleanRelativePath(name).ok

\* C19: a link entry with an absolute target ends the program: no link is
\* made from it, it is the last entry taken from the archive, Update is not
\* called and the base link is as it was.
C19_AbsLinkFatal ==
    \A k \in 1..apos :
        AbsLinkAt(k) =>
            /\ pc = "fatal"
            /\ apos = k
            /\ log[Len(log)] = Event("fatal", NoInstance, "abslink")
            /\ \A i \in tree : i.from # k
            /\ \A e \in escaped : e.entry # k
            /\ link = link0
            /\ uver = NoName

C19_Witness ==
    /\ pc = "fatal"
    /\ apos >= 1 /\ apos < Len(arc.entries)
    /\ AbsLinkAt(apos)
    /\ made

C25_RelatedDelegation ==
    (cmd.op = "fanout" /\ RelatedTypes(cmd.ct) # <<>>) =>
        /\ active.ct # cmd.ct
        /\ \A l \in Leaves : l.ct = cmd.ct => tfs[l] = OwnDir
        /\ \A k \in CallsOf(1) :
              flog[k].kind = "related" /\ flog[k].n = Len(RelatedTypes(cmd.ct))
        /\ pc = "done" =>
              /\ result = Nil
              /\ Cardinality(CallsOf(1)) = Len(RelatedTypes(cmd.ct))

C25_Witness ==
    /\ cmd.op = "fanout" /\ RelatedTypes(cmd.ct) # <<>>
    /\ pc = "done"
    /\ \E k \in CallsOf(1) : flog[k].err = "IO"
    /\ \E l \in Leaves : l.ct \in {"netprobe", "fa2"} /\ tfs[l].link["active_prod"] = VB

\* C26: as stated: in `package update` with restart and without force, when
\* Stop has returned for an instance bound to the base link and its process
\* is still there, the base link stays as it was.
C26_NoSwapUnderSurvivor ==
    (/\ cmd.op = "update" /\ cmd.restart /\ ~cmd.force
     /\ \E k \in DOMAIN log :
           /\ log[k].ev = "stopped" /\ log[k].arg = "alive"
           /\ log[k].inst \in BoundInstances)
        => link = link0

\* the step is a failed h.Remove, a failed h.Symlink
RemoveFailed ==
    /\ pc = "u_remove"
    /\ Len(log') = Len(log) + 1
    /\ log'[Len(log')] = Event("remove", NoInstance, "failed")
SymlinkFailed ==
    /\ pc = "u_symlink"
    /\ Len(log') = Len(log) + 1
    /\ log'[Len(log')] = Event("symlink", NoInstance, "failed")

\* C27: when h.Remove of the existing link fails, Update returns the error
\* in that step, h.Symlink is not called and the link has its old target;
\* when h.Symlink fails, Update returns the error in that step, and the
\* link stays as the step found it: neither made nor put back.
C27_SwapSurfacesErrors ==
    /\ [][RemoveFailed =>
             /\ pc' = "done"
             /\ result' # Nil /\ ~IsNotExist(result') /\ uerr' = result'
             /\ link' = link
             /\ link[OptBasename] = existing \/ existing = NoName
             /\ link[OptBasename] # NoName]_vars
    /\ [][SymlinkFailed =>
             /\ pc' = "done"
             /\ result' # Nil /\ uerr' = result'
             /\ link' = link]_vars
    /\ [][pc = "done" => pc' \notin {"u_remove", "u_symlink"}]_vars

C27_Witness ==
    /\ cmd.op = "activate" /\ pc = "done"
    /\ result = ErrIO
    /\ log # <<>> /\ log[Len(log)] = Event("symlink", NoInstance, "failed")
    /\ link0[cmd.base] # NoName
    /\ link[cmd.base] = NoName

\* the returns of Stop with a nil error
StoppedOk(i) == {k \in DOMAIN log : log[k] = Event("return", i, "nil")}

\* C29: no Start is called before Update has returned; when the command
\* has returned, Start has been called once for each instance whose Stop
\* returned nil and for no other, whatever Update returned.
C29_StoppedAreStarted ==
    cmd.op = "update" =>
        /\ pc \notin {"r_defer", "done"} => \A i \in Instances : StartsOf(i) = {}
        /\ \A i \in Instances :
              /\ Cardinality(StoppedOk(i)) <= 1
              /\ Cardinality(StartsOf(i)) <= Cardinality(StoppedOk(i))
        /\ pc = "done" =>
              \A i \in Instances :
                 Cardinality(StartsOf(i)) = Cardinality(StoppedOk(i))

C29_Witness ==
    /\ cmd.op = "update" /\ pc = "done"
    /\ uerr = ErrIO
    /\ \E i \in Instances :
          /\ run0[i]
          /\ \E k \in StartsOf(i) : log[k].arg = "started"
    /\ \E i \in Instances : StoppedOk(i) = {} /\ StartsOf(i) = {}

\* C30: when Update has returned the not-exist error, for a version that
\* does not resolve or has no directory, `package update` returns nil and
\* the base links are as they were; any other error of Update is what the
\* command returns.
C30_MissingVersionSwallowed ==
    (cmd.op = "update" /\ pc \in {"r_defer", "done"} /\ ~warned) =>
        /\ IsNotExist(uerr) => (result = Nil /\ link = link0)
        /\ ~IsNotExist(uerr) => result = uerr

C30_Witness ==
    /\ cmd.op = "update" /\ pc = "done"
    /\ IsNotExist(uerr) /\ result = Nil
    /\ cmd.version = VMissing
    /\ uver = NoName

\* requests k and k + 1 are the same but for the platform suffix
RetryOf(k) ==
    /\ k < Len(reqs)
    /\ reqs[k + 1].method = reqs[k].method
    /\ reqs[k + 1].body = reqs[k].body
    /\ ~reqs[k + 1].suffix

\* checkArchive has sent its requests
Exchanged == cmd.op = "open" /\ pc \in {"c_check", "o_cache", "o_save", "done"}

\* C21: with the vendor's server, the first request is a GET with the
\* platform suffix when there is a platform; when the requests are over, a
\* request with the suffix that was answered 404 is followed by the same
\* request without the suffix, a GET answered 401 or 403 with a username
\* set is followed, at once or after the retry of the GET, by a POST of the
\* credentials; and no exchange has more than four requests.
C21_FallbackProtocol ==
    (cmd.op = "open" /\ net.downloadtype = "vendor") =>
        /\ Len(reqs) <= 4
        /\ reqs # <<>> =>
              /\ reqs[1].method = "GET"
              /\ reqs[1].suffix = net.platform
        /\ Exchanged =>
              \A k \in DOMAIN reqs :
                 /\ (reqs[k].suffix /\ reqs[k].status = 404) => RetryOf(k)
                 /\ (/\ reqs[k].method = "GET"
                     /\ reqs[k].status \in {401, 403}
                     /\ net.username) =>
                        /\ k < Len(reqs)
                        /\ reqs[k + 1].method = "POST"
                        /\ reqs[k + 1].body = "creds"
                        /\ reqs[k + 1].suffix = reqs[k].suffix

C21_Witness ==
    /\ Exchanged /\ net.downloadtype = "vendor"
    /\ Len(reqs) = 3
    /\ reqs[1] = Request("GET", TRUE, "none", 401)
    /\ reqs[2] = Request("POST", TRUE, "creds", 404)
    /\ reqs[3] = Request("POST", FALSE, "creds", 200)

\* C22: when OpenArchive has returned and the last answer had a status
\* above 299, it has returned an error and no stream, the file in
\* packages/downloads has not been written and has not been opened.
C22_HTTPFailureTerminal ==
    (cmd.op = "open" /\ pc = "done" /\ reqs # <<>> /\ LastStatus > 299) =>
        /\ result = ErrHTTP
        /\ obody = "none"
        /\ cache \notin {"saved", "partial"}

C22_Witness ==
    /\ cmd.op = "open" /\ pc = "done"
    /\ reqs # <<>> /\ LastStatus = 401
    /\ ~net.username
    /\ cache = "file"
    /\ result = ErrHTTP

\* the instances `delete` is run for
Matching == {i \in Instances : conf[i].ctype = cmd.ct}

\* C23: as stated: without --force the home directory of a protected
\* instance is never removed, and when `delete --force` has returned, the
\* home directory of every matching protected instance whose process was
\* not running has been removed, unless the removal itself failed.
C23_DeleteRespectsProtection ==
    cmd.op = "delete" =>
        /\ ~cmd.force => \A i \in removed : ~IsProtected(i)
        /\ (cmd.force /\ pc = "done" /\ ~faulted) =>
              \A i \in Matching : (IsProtected(i) /\ ~run0[i]) => i \in removed

\* C24: as stated: the home directory of an unprotected instance whose
\* process was running is removed only when --stop was given and the
\* process was gone when Stop returned.
C24_DeleteRespectsRunning ==
    cmd.op = "delete" =>
        \A i \in removed :
            (~IsProtected(i) /\ run0[i]) =>
                /\ cmd.stop
                /\ \E k \in DOMAIN log : log[k] = Event("stopped", i, "gone")

\* `package install --update` without --force, with a protected instance
\* of the component on the base link
InstallGuarded ==
    /\ cmd.op = "install" /\ cmd.update /\ ~cmd.force
    /\ ProtectedOnBase(cmd.ct, cmd.base) # <<>>

\* C28: `package install --update` without --force and with a protected
\* instance on the requested base link: in every state of the run no
\* directory has been made, no archive opened or unpacked, no instance
\* signalled or started and the links are as they were, and the command
\* ends at the guard; with --force the command has --update set once the
\* flags are read and does not stop at the guard.
C28_InstallGuard ==
    /\ InstallGuarded =>
          /\ pc \in {"i_flags", "i_guard", "done"}
          /\ log = <<>>
          /\ arc = NoArchive /\ apos = 0 /\ ~made
          /\ versions = {VA} /\ tree = OldTree(versions)
          /\ link = link0
          /\ running = run0
          /\ (pc = "done" /\ ~cmd.download) => (warned /\ result = Nil)
    /\ (/\ cmd.op = "install" /\ cmd.force
        /\ pc \notin {"idle", "i_flags"} /\ result # ErrFlags) =>
          /\ cmd.update
          /\ ~warned

C28_Witness ==
    /\ InstallGuarded
    /\ pc = "done" /\ warned
    /\ \E i \in Instances :
          /\ conf[i].ctype = cmd.ct /\ conf[i].version = cmd.base
          /\ conf[i].protected = "false"
          /\ running[i]

\* the instances the rollout may not touch: another component or base name
Bystanders == Instances \ BoundInstances

\* C31: `package update` sends a signal to, or starts, only instances whose
\* component is the one being updated and whose base name is the one being
\* changed; the process of every other instance is as it was before the run.
C31_OnlyDependentsTouched ==
    cmd.op = "update"
    => /\ \A k \in DOMAIN log :
             log[k].ev \in {"SIGTERM", "SIGKILL", "stopped", "start"}
             => log[k].inst \in BoundInstances
       /\ \A i \in Bystanders :
             /\ running[i] = run0[i]
             /\ pending[i] = "none"
       /\ \A k \in DOMAIN todo : todo[k] \in BoundInstances
       /\ \A k \in DOMAIN deferred : deferred[k] \in BoundInstances

C31_Witness ==
    /\ pc = "done"
    /\ cmd.op = "update" /\ cmd.restart
    /\ \E i \in BoundInstances, j \in Bystanders :
          /\ conf[j].ctype = cmd.ct /\ conf[j].version # cmd.base
          /\ run0[i] /\ run0[j] /\ running[j]
          /\ SignalsTo(i) # {} /\ StartsOf(i) # {}

\* the protected instances of the component being updated, on any base name
ProtectedOfComponent ==
    {i \in Instances : conf[i].ctype = cmd.ct /\ conf[i].protected = "true"}

\* C32: `package update` without --force, the component having a protected
\* instance on the host, whatever base name that instance is bound to and
\* whether or not --restart is given: the command stops at the guard, with
\* the base links and every process as they were, nothing signalled or
\* started, and returns nil after the warning.
C32_GuardBreadth ==
    (/\ cmd.op = "update"
     /\ ~cmd.force
     /\ ProtectedOfComponent # {})
    => /\ pc \in {"r_guard", "done"}
       /\ link = link0
       /\ versions = {VA, VB}
       /\ log = <<>>
       /\ running = run0
       /\ todo = <<>> /\ deferred = <<>>
       /\ pc = "done" => (result = Nil /\ warned)

C32_Witness ==
    /\ pc = "done"
    /\ cmd.op = "update" /\ ~cmd.force /\ ~cmd.restart
    /\ cmd.version = Latest
    /\ link0[cmd.base] = VA /\ link[cmd.base] = VA
    /\ warned
    /\ ProtectedOfComponent # {}
    /\ \A i \in ProtectedOfComponent : conf[i].version # cmd.base

\* C33: `package update --force`: Stop never enters its graceful phase (no
\* SIGTERM, no retry loop, no poll before the kill); an instance gets one
\* SIGKILL at most, Stop returns straight after it or after the one poll
\* that follows it, and when the command is done with --restart every
\* instance bound to the base name has been sent exactly one SIGKILL.
C33_ForcedStopSkipsGraceful ==
    (cmd.op = "update" /\ cmd.force)
    => /\ pc \notin {"s_term", "s_retry", "s_poll"}
       /\ tries = 0
       /\ \A k \in DOMAIN log : log[k].ev # "SIGTERM"
       /\ \A i \in Instances : Cardinality(SignalsTo(i)) <= 1
       /\ pc = "s_killed"
          => /\ log # <<>>
             /\ log[Len(log)].ev = "SIGKILL" /\ log[Len(log)].inst = cur
       /\ \A k \in DOMAIN log :
             log[k].ev = "stopped"
             => k > 1 /\ log[k - 1].ev = "SIGKILL"
                      /\ log[k - 1].inst = log[k].inst
       /\ (pc = "done" /\ cmd.restart)
          => \A i \in BoundInstances : Cardinality(SignalsTo(i)) = 1

C33_Witness ==
    /\ pc = "done"
    /\ cmd.op = "update" /\ cmd.force /\ cmd.restart
    /\ BoundInstances = Instances
    /\ \A i \in Instances :
          /\ run0[i]
          /\ \E k \in SignalsTo(i) : log[k] = Event("SIGKILL", i, "nil")

\* two calls of Update at once, with force, for two installed versions
RacingActivations ==
    /\ cmd.op = "race" /\ cmd.force
    /\ \A p \in Procs : procs[p].op = "activate"
    /\ procs["p1"].version # procs["p2"].version
    /\ \A p \in Procs : procs[p].version \in versions

AllReturned == \A p \in Procs : procs[p].pc = "done"

\* C34: two calls of Update with force for two installed versions A and B,
\* their steps interleaved in any way and no filesystem call failing for an
\* outside reason: when both have returned, the base link exists and
\* targets A or B; each call has returned nil or the already-exists error
\* of its Symlink, and at most one of them the error.
C34_ActivationsConverge ==
    (RacingActivations /\ AllReturned /\ ~faulted)
    => /\ link[cmd.base] \in {procs[p].version : p \in Procs}
       /\ \A p \in Procs : procs[p].err \in {Nil, ErrExist}
       /\ \E p \in Procs : procs[p].err = Nil

C34_Witness ==
    /\ RacingActivations /\ AllReturned /\ ~faulted
    /\ link0[cmd.base] = VOther
    /\ link[cmd.base] = VA
    /\ \E p \in Procs : procs[p].err = ErrExist /\ procs[p].version = VB

\* two calls of Unarchive at once, with the same archive
RacingUnpacks ==
    /\ cmd.op = "race"
    /\ \A p \in Procs : procs[p].op = "unpack"

\* the version directory was there before the calls began
Preinstalled(v) == \E i \in tree : i.dir = v /\ i.from = 0

\* the call returned at the test of the version directory
ReturnedAtCheck(p) ==
    /\ procs[p].pc = "done"
    /\ procs[p].xver # NoName
    /\ procs[p].ct = arc.file.ct
    /\ ~procs[p].made
    /\ procs[p].err = Nil

\* C35: as claimed: of two calls of Unarchive for one version at most one
\* gets past the test of the version directory, and at most one writes
\* entries of the archive into it.
C35_InstallsExclusive ==
    RacingUnpacks
    => /\ Cardinality({p \in Procs : procs[p].made}) <= 1
       /\ Cardinality({p \in Procs : procs[p].apos > 0}) <= 1

\* C35, amended: the test of the version directory and its creation are two
\* steps: a call gets past the test only when the directory was not there
\* before the calls, a call that returns at the test does so because the
\* directory was there before or the other call has made it, and only a
\* call that got past the test writes entries.
C35_CheckThenCreate ==
    RacingUnpacks
    => \A p \in Procs :
          /\ procs[p].pc \in {"x_mkdir", "x_open", "x_extract"}
             => ~Preinstalled(procs[p].xver)
          /\ procs[p].made => ~Preinstalled(procs[p].xver)
          /\ procs[p].apos > 0 => procs[p].made
          /\ ReturnedAtCheck(p)
             => /\ procs[p].xver \in versions
                /\ procs[p].apos = 0
                /\ \/ Preinstalled(procs[p].xver)
                   \/ \E q \in Procs \ {p} : procs[q].made

C35_Witness ==
    /\ RacingUnpacks
    /\ \E p \in Procs, q \in Procs :
          /\ ReturnedAtCheck(p) /\ ~Preinstalled(procs[p].xver)
          /\ procs[q].made /\ procs[q].apos > 0 /\ procs[q].pc = "done"

\* C36: Unarchive never removes a version directory; when it fails after it
\* made the directory (gzip, tar or file creation error), the directory is
\* still there and the resolver finds a version for its name; and a call
\* that finds the directory of its version returns nil there, with nothing
\* extracted and the directories and the link as they were.
C36_FailedUnpackLeavesVersion ==
    [][cmd.op = "unarchive"
       => /\ versions \subseteq versions'
          /\ (pc # "done" /\ pc' = "done" /\ made' /\ result' # Nil)
             => /\ xver' \in versions'
                /\ LatestVersion(versions', link', VersionFilter(xver'))
                      # {NoName}
          /\ (pc = "x_stat" /\ xver \in versions /\ pc' # pc)
             => /\ pc' = "done"
                /\ result' = Nil
                /\ ~made'
                /\ apos' = 0
                /\ UNCHANGED <<tree, versions, link, escaped>>]_vars

C36_Witness ==
    /\ cmd.op = "unarchive"
    /\ calls = 2 /\ prev = ErrIO
    /\ pc = "done" /\ result = Nil /\ ~made /\ apos = 0
    /\ xver \in versions
    /\ ~Preinstalled(xver)
    /\ arc.entries = <<Entry(<<"gateway", "x">>, "reg", <<>>)>>
    /\ ~\E i \in tree : i.dir = xver

\* C37: as stated: whatever the sequence of entries, every file and
\* directory made from an entry of the archive is in the version directory
\* of the call.
C37_SequencesContained ==
    cmd.op = "unarchive"
    => /\ \A e \in escaped : arc.entries[e.entry].type \notin {"reg", "dir"}
       /\ \A i \in tree :
             (i.from > 0 /\ i.type \in {"reg", "dir"}) => i.dir = xver

\* C38: as stated: with the vendor's server a POST is sent only with a
\* username set and after an earlier answer of the exchange with status 401
\* or 403, two answers of 404 in a row are not followed by a POST, and no
\* exchange has more than four requests.
C38_PostOnlyOnChallenge ==
    (cmd.op = "open" /\ net.downloadtype = "vendor")
    => /\ Len(reqs) <= 4
       /\ \A k \in DOMAIN reqs :
             reqs[k].method = "POST"
             => /\ net.username
                /\ \E j \in 1..(k - 1) : reqs[j].status \in {401, 403}
       /\ \A k \in DOMAIN reqs :
             (/\ k + 2 <= Len(reqs)
              /\ reqs[k].status = 404
              /\ reqs[k + 1].status = 404)
             => reqs[k + 2].method # "POST"

====
